---- MODULE Spec2Model ----
(***************************************************************************)
(* The reconciliation engine of the InferenceScheduler operator            *)
(* (internal/controller/inferencescheduler_controller.go) against a model  *)
(* of the Kubernetes store it talks to.                                    *)
(*                                                                         *)
(* One Reconcile invocation is a sequence of blocking store calls.  Each   *)
(* action below is one store call of Reconcile together with the local     *)
(* computation that follows it up to the next store call; a store call     *)
(* whose error the code drops is folded with the call before it when the   *)
(* two touch different objects.  The environment (the user, the           *)
(* deployment controller, other controllers) acts between invocations;     *)
(* the registered capability types and GatewayClass instances are fixed    *)
(* by the initial state.                                                   *)
(***************************************************************************)
EXTENDS Integers, Sequences, FiniteSets, TLC

(* ------------------------------------------------------------------ *)
(* Bounds of the model                                                 *)
(* ------------------------------------------------------------------ *)

\* Largest replica count a DesiredState asks for; the deployment
\* controller reports 0..replicas ready replicas.
MaxReplicas == 2

\* Most store calls of one behaviour that fail for a reason outside the
\* model (network, admission, quota, a write by another actor during the
\* invocation); NotFound, AlreadyExists and NoMatch follow from the
\* store's state and are not counted.
MaxFaults == 2

\* The clock readings and the generations of the root, used where the
\* conditions' timestamps are modelled.
MaxTime == 2
MaxGeneration == 2

\* Most readings of the root's phase a client keeps.
MaxObserved == 3

(* ------------------------------------------------------------------ *)
(* Program constants                                                   *)
(* ------------------------------------------------------------------ *)

finalizerName == "llm.llm-d.io/finalizer"

\* A finalizer of some other controller on the root.
otherFinalizer == "example.com/other"

\* Requeue delays, in seconds.
RequeuePrerequisites == 60
RequeueNotReady == 30
RequeueReady == 300

\* Default replica counts handed to getDefaultInt32.
defaultModelServerReplicas == 2
defaultEPPReplicas == 1

\* Default ports (controller lines 50-52).
defaultModelServerPort == 8000
defaultEPPGRPCPort == 9002
defaultGatewayPort == 80

\* The capability types validatePrerequisites probes, in probe order.
Types == <<"Gateway", "HTTPRoute", "InferencePool", "GatewayClass">>

TypeSet == {Types[i] : i \in 1..Len(Types)}

\* GatewayClass instance names (the kubebuilder enum, less its longest member).
ClassNames == {"kgateway", "istio"}

\* A faulty order: the model server's Service before its Deployment.
OrderSwapped ==
  << "Service/vllm", "Deployment/vllm",
     "ServiceAccount/epp", "Role/epp", "RoleBinding/epp",
     "ConfigMap/epp-config", "Deployment/epp", "Service/epp",
     "InferencePool/pool", "Gateway/gateway", "HTTPRoute/route" >>

\* A faulty engine that upserts no Role and no RoleBinding.
OrderWithoutRBAC ==
  << "Deployment/vllm", "Service/vllm",
     "ServiceAccount/epp", "ConfigMap/epp-config", "Deployment/epp",
     "Service/epp", "InferencePool/pool", "Gateway/gateway",
     "HTTPRoute/route" >>

\* The children in the order Reconcile upserts them: kind/name-suffix.
Order ==
  << "Deployment/vllm", "Service/vllm",
     "ServiceAccount/epp", "Role/epp", "RoleBinding/epp",
     "ConfigMap/epp-config", "Deployment/epp", "Service/epp",
     "InferencePool/pool", "Gateway/gateway", "HTTPRoute/route" >>

NumChildren == Len(Order)

Children == {Order[i] : i \in 1..NumChildren}

\* The children written through createOrUpdateUnstructured, with the
\* capability type each needs registered.
TypeOfChild(c) ==
  CASE c = "InferencePool/pool" -> "InferencePool"
    [] c = "Gateway/gateway" -> "Gateway"
    [] c = "HTTPRoute/route" -> "HTTPRoute"
    [] OTHER -> "core"

ModelServerDeployment == "Deployment/vllm"
EPPDeployment == "Deployment/epp"

(* ------------------------------------------------------------------ *)
(* DesiredState and ObservedStatus                                     *)
(* ------------------------------------------------------------------ *)

\* InferenceSchedulerSpec, reduced to the fields the engine reads.  A zero
\* replica count or an empty class name is the field left unset.
DesiredStates ==
  { [className |-> "", msReplicas |-> MaxReplicas, eppReplicas |-> 1],
    [className |-> "istio", msReplicas |-> 1, eppReplicas |-> 1] }

\* The zero value of InferenceSchedulerStatus.
ZeroStatus ==
  [ phase |-> "",
    conditions |-> << >>,
    modelServerReplicas |-> 0,
    eppReplicas |-> 0,
    gatewayReady |-> FALSE,
    inferencePoolReady |-> FALSE,
    prerequisitesValidated |-> FALSE,
    prerequisiteMessage |-> << >> ]

NoObject ==
  [ finalizers |-> {}, deletionTimestamp |-> FALSE,
    spec |-> [className |-> "", msReplicas |-> 2, eppReplicas |-> 1],
    status |-> ZeroStatus ]

\* A child that is not in the store.
Absent ==
  [ present |-> FALSE, payload |-> << >>, owner |-> "none",
    readyReplicas |-> 0, creator |-> "none" ]

NoResult == [kind |-> "none", after |-> 0]

\* The local state of a worker that runs no invocation.
Idle ==
  [ pc |-> "idle", obj |-> NoObject, step |-> 0, trace |-> << >>,
    faults |-> 0, result |-> NoResult, listFailed |-> FALSE,
    validated |-> "notrun", missing |-> << >>,
    readyMS |-> "notrun", readyEPP |-> "notrun" ]

(* ------------------------------------------------------------------ *)
(* Pure helpers                                                        *)
(* ------------------------------------------------------------------ *)

\* getDefaultInt32(value *int32, defaultValue): the default is used only
\* for a nil pointer.
getDefaultInt32(isNil, value, defaultValue) ==
  IF ~isNil THEN value ELSE defaultValue

getDefaultString(value, defaultValue) ==
  IF value # "" THEN value ELSE defaultValue

\* meta.FindStatusCondition: index of the first condition of that type, 0 if none.
FindStatusCondition(conds, type) ==
  IF \E i \in 1..Len(conds) : conds[i].type = type
    THEN CHOOSE i \in 1..Len(conds) :
           /\ conds[i].type = type
           /\ \A j \in 1..(i-1) : conds[j].type # type
    ELSE 0

\* A faulty SetStatusCondition: the condition is always appended.
SetStatusConditionAppend(conds, c) == Append(conds, c)

\* A faulty SetStatusCondition: the stored condition is replaced whole.
SetStatusConditionReplace(conds, c) ==
  LET i == FindStatusCondition(conds, c.type) IN
  IF i = 0 THEN Append(conds, c) ELSE [conds EXCEPT ![i] = c]

\* meta.SetStatusCondition: append when the type is new, else update in
\* place: status, reason, message and observedGeneration are taken from
\* the new condition, lastTransitionTime only when the status differs.
\* (The engine's own conditions above carry neither a time nor a
\* generation; the fields a condition has are the fields updated.)
SetStatusCondition(conds, c) ==
  LET i == FindStatusCondition(conds, c.type) IN
  IF i = 0 THEN Append(conds, c)
  ELSE [conds EXCEPT ![i] =
          [f \in DOMAIN conds[i] |->
             IF f = "type" THEN conds[i][f]
             ELSE IF f = "lastTransitionTime" /\ conds[i].status = c.status
               THEN conds[i][f]
               ELSE c[f]]]

\* A faulty updateCondition: the status of a condition that is already in
\* the list is kept, reason and message alone are updated.
updateConditionKeepsStatus(o, type, status, reason, message) ==
  LET i == FindStatusCondition(o.status.conditions, type) IN
  [o EXCEPT !.status.conditions =
     SetStatusCondition(@, [type |-> type,
                            status |-> IF i = 0 THEN status
                                       ELSE o.status.conditions[i].status,
                            reason |-> reason, message |-> message])]

\* A faulty updateCondition: recording a False condition also clears the
\* readiness flags.
updateConditionResetting(o, type, status, reason, message) ==
  [o EXCEPT !.status.conditions =
              SetStatusCondition(@, [type |-> type, status |-> status,
                                     reason |-> reason, message |-> message]),
            !.status.gatewayReady = @ /\ status # "False",
            !.status.inferencePoolReady = @ /\ status # "False"]

\* Lines 441-457: updateCondition.
updateCondition(o, type, status, reason, message) ==
  [o EXCEPT !.status.conditions =
     SetStatusCondition(@, [type |-> type, status |-> status,
                            reason |-> reason, message |-> message])]

\* contains(slice, "Gateway API"): some item has the substring "Gateway API".
HasGatewayAPI(item) ==
  item \in { "Gateway API v1.3.0+",
             "Gateway API HTTPRoute CRD",
             "Gateway API Inference Extension v1.1.0+" }

containsGatewayAPI(slice) ==
  \E i \in 1..Len(slice) : HasGatewayAPI(slice[i])

ClassEntry(name) == "GatewayClass '" \o name \o "'"

\* validatePrerequisites' list of missing prerequisites; each item is the
\* source's text up to its "(install ...)" hint.  probe[t] is what
\* the List of type t returned ("ok", "nomatch" or "err"); items are the
\* names of the GatewayClass instances a successful List returned.
missingPrereqs(probe, items, spec) ==
  LET m1 == IF probe["Gateway"] = "nomatch"
              THEN << "Gateway API v1.3.0+" >> ELSE << >>
      m2 == IF probe["HTTPRoute"] = "nomatch" /\ ~containsGatewayAPI(m1)
              THEN Append(m1, "Gateway API HTTPRoute CRD") ELSE m1
      m3 == IF probe["InferencePool"] = "nomatch"
              THEN Append(m2, "Gateway API Inference Extension v1.1.0+") ELSE m2
      gatewayClassName == getDefaultString(spec.className, "kgateway")
  IN  IF probe["GatewayClass"] # "ok"
        THEN IF probe["GatewayClass"] = "nomatch"
               THEN Append(m3, "GatewayClass CRD") ELSE m3
        ELSE IF gatewayClassName \in items
               THEN m3 ELSE Append(m3, ClassEntry(gatewayClassName))

\* The text of validatePrerequisites' error: the items joined after a prefix.
prerequisiteError(missing) == << "missing prerequisites" >> \o missing

\* getDefaultFloat64(value *float64, defaultValue).  Weights are counted in
\* hundredths.
getDefaultFloat64(isNil, value, defaultValue) ==
  IF ~isNil THEN value ELSE defaultValue

\* fmt's %.1f of a weight: rounded to one decimal, as << units, tenths >>.
\* (No weight of the model lies halfway between two tenths.)
FormatWeight(h) ==
  LET t == (h + 5) \div 10 IN << t \div 10, t % 10 >>

\* A scorer pointer that is nil.
NilScorer == [isNil |-> TRUE, enabled |-> FALSE, weightNil |-> TRUE, weight |-> 0]

\* The plugin block of a spec; a spec of the model without the block has
\* no scorer configured.
PluginsOf(spec) ==
  IF "plugins" \in DOMAIN spec THEN spec.plugins
  ELSE [ loadAwareScorer |-> NilScorer, prefixCacheScorer |-> NilScorer,
         kvCacheUtilizationScorer |-> NilScorer ]

\* Lines 209-243 of buildEPPConfigMap: the text of plugins.yaml, one entry
\* per scorer that is set and enabled, in the builder's order.
pluginConfig(spec) ==
  LET p == PluginsOf(spec)
      entry(sc, type, defaultWeight) ==
        IF ~sc.isNil /\ sc.enabled
          THEN << [ type |-> type,
                    weight |-> FormatWeight(
                      getDefaultFloat64(sc.weightNil, sc.weight, defaultWeight)) ] >>
          ELSE << >>
  IN  << "plugins:" >>
        \o entry(p.loadAwareScorer, "load-aware-scorer", 100)
        \o entry(p.prefixCacheScorer, "prefix-cache-scorer", 200)
        \o entry(p.kvCacheUtilizationScorer, "kv-cache-utilization-scorer", 100)

\* An int32 field of the spec; zero (left unset) when a spec of the model
\* does not carry it.
Int32Field(spec, f) == IF f \in DOMAIN spec THEN spec[f] ELSE 0

\* The builders of resources.go: the descriptor's payload for child c.
\* Every int32 field is handed to getDefaultInt32 by its address, which
\* is never nil.
Build(c, o) ==
  CASE c = "Deployment/vllm" ->
         [ kind |-> "Deployment",
           replicas |-> getDefaultInt32(FALSE, o.spec.msReplicas,
                                        defaultModelServerReplicas),
           port |-> getDefaultInt32(FALSE, Int32Field(o.spec, "msPort"),
                                    defaultModelServerPort) ]
    [] c = "Deployment/epp" ->
         [ kind |-> "Deployment",
           replicas |-> getDefaultInt32(FALSE, o.spec.eppReplicas,
                                        defaultEPPReplicas),
           port |-> getDefaultInt32(FALSE, Int32Field(o.spec, "grpcPort"),
                                    defaultEPPGRPCPort) ]
    [] c = "Gateway/gateway" ->
         [ kind |-> "Gateway",
           gatewayClassName |-> getDefaultString(o.spec.className, "kgateway"),
           port |-> getDefaultInt32(FALSE, Int32Field(o.spec, "listenerPort"),
                                    defaultGatewayPort) ]
    [] c = "Service/vllm" -> [kind |-> "Service"]
    [] c = "Service/epp" -> [kind |-> "Service"]
    [] c = "ServiceAccount/epp" -> [kind |-> "ServiceAccount"]
    [] c = "Role/epp" -> [kind |-> "Role"]
    [] c = "RoleBinding/epp" -> [kind |-> "RoleBinding"]
    [] c = "ConfigMap/epp-config" ->
         [kind |-> "ConfigMap", data |-> pluginConfig(o.spec)]
    [] c = "InferencePool/pool" -> [kind |-> "InferencePool"]
    [] c = "HTTPRoute/route" -> [kind |-> "HTTPRoute"]

(* ------------------------------------------------------------------ *)
(* State                                                               *)
(* ------------------------------------------------------------------ *)

VARIABLES
  root,       \* the InferenceScheduler object in the store
  children,   \* the child objects in the store
  crds,       \* the capability types registered in the store
  classes,    \* the names of the installed GatewayClass instances
  inv,        \* per worker: the running invocation's position and locals
  fresh,      \* per worker: its copy of the root has the stored resourceVersion
  existing,   \* per worker: what createOrUpdate's Get found ("none" outside it)
  finalizerPersisted  \* history: the store has held the root with the finalizer

vars == << root, children, crds, classes, inv, fresh, existing, finalizerPersisted >>

\* The workers the driving scheduler runs for this root.
Active == {"w1"}

Init ==
  /\ \E s \in DesiredStates :
       root = [ exists |-> TRUE, finalizers |-> {otherFinalizer},
                deletionTimestamp |-> FALSE, spec |-> s, status |-> ZeroStatus ]
  /\ children = [c \in Children |-> Absent]
  /\ crds \in SUBSET TypeSet
  /\ classes \in SUBSET ClassNames
  /\ "GatewayClass" \notin crds => classes = {}
  /\ inv = [w \in Active |-> Idle]
  /\ fresh = [w \in Active |-> FALSE]
  /\ existing = [w \in Active |-> "none"]
  /\ finalizerPersisted = FALSE

(* ------------------------------------------------------------------ *)
(* The store, as the engine's calls see it                             *)
(* ------------------------------------------------------------------ *)

Log(r, op, target, outcome) ==
  [r EXCEPT !.trace = Append(@, << op, target, outcome >>)]

\* A faulty engine: every return is a requeue after 30s.
FinishWithShortRequeue(r, kind, after) ==
  [r EXCEPT !.pc = "done",
            !.result = [kind |-> "requeueAfter", after |-> RequeueNotReady]]

\* The invocation returns (ctrl.Result, error).
Finish(r, kind, after) ==
  [r EXCEPT !.pc = "done", !.result = [kind |-> kind, after |-> after]]

\* Whether the next store call of an invocation may fail from outside.
FaultChoices(r) == IF r.faults < MaxFaults THEN BOOLEAN ELSE {FALSE}

Faulted(r, fail) == IF fail THEN [r EXCEPT !.faults = @ + 1] ELSE r

\* A faulty store: a write of the root is accepted whatever resourceVersion
\* the copy carries.
RootWritableAnyVersion(w, fail) == ~fail /\ root.exists

\* An Update or Status().Update of the root succeeds when the call gets
\* through, the root is still stored and the copy's resourceVersion is the
\* stored one (otherwise NotFound or Conflict).
RootWritable(w, fail) == ~fail /\ root.exists /\ fresh[w]

\* What such a call returns.
RootWriteOutcome(w, fail) ==
  IF fail THEN "err"
  ELSE IF ~root.exists THEN "notfound"
  ELSE IF ~fresh[w] THEN "conflict"
  ELSE "ok"

\* The store once the root lost its last finalizer under a deletion marker.
GoneRoot ==
  [ exists |-> FALSE, finalizers |-> {}, deletionTimestamp |-> TRUE,
    spec |-> root.spec, status |-> ZeroStatus ]

\* r.Status().Update(o): the stored status becomes o's; a write that
\* changes it gives the root a new resourceVersion, which only w holds.
StatusWritten(w, o, ok) ==
  /\ root' = IF ok THEN [root EXCEPT !.status = o.status] ELSE root
  /\ fresh' = IF ok /\ root.status # o.status
                THEN [v \in DOMAIN inv |-> v = w] ELSE fresh

\* A Status().Update whose error Reconcile drops, then the return.
DropStatusUpdateAndFinish(w, r, o, kind, after) ==
  \E sfail \in FaultChoices(r) :
    LET ok == RootWritable(w, sfail) IN
    /\ inv' = [inv EXCEPT ![w] =
         Finish(Log(Faulted([r EXCEPT !.obj = o], sfail),
                    "StatusUpdate", "root", RootWriteOutcome(w, sfail)), kind, after)]
    /\ StatusWritten(w, o, ok)

(* ------------------------------------------------------------------ *)
(* Reconcile, one store call at a time                                 *)
(* ------------------------------------------------------------------ *)

\* A faulty engine: the initial phase is written on every pass.
AfterFinalizerAlwaysInitial(o) == "setInitialPhase"

\* Lines 103-109 decide whether the initial phase is written.
AfterFinalizer(o) ==
  IF o.status.phase = "" THEN "setInitialPhase" ELSE "validate"

\* A faulty routing: the finalizer is never attached.
AfterFetchNoFinalizer(o) ==
  IF o.deletionTimestamp THEN "handleDeletion" ELSE AfterFinalizer(o)

\* A faulty routing: the deletion marker is not looked at.
AfterFetchNoDeletion(o) ==
  IF finalizerName \notin o.finalizers THEN "addFinalizer"
  ELSE AfterFinalizer(o)

\* Lines 90-101: deletion first, then the finalizer.
AfterFetch(o) ==
  IF o.deletionTimestamp THEN "handleDeletion"
  ELSE IF finalizerName \notin o.finalizers THEN "addFinalizer"
  ELSE AfterFinalizer(o)

\* A faulty engine: a root that is not found is returned as an error.
RootNotFoundAsError(r) ==
  Finish(Log(r, "Get", "root", "notfound"), "error", 0)

\* Lines 81-84: the root is not found: ctrl.Result{}, nil.
RootNotFound(r) ==
  Finish(Log(r, "Get", "root", "notfound"), "noRequeue", 0)

\* Lines 79-93: r.Get of the root.
Start(w) ==
  /\ inv[w].pc = "idle"
  /\ \E fail \in FaultChoices(inv[w]) :
       LET r == Faulted(inv[w], fail)
           o == [ finalizers |-> root.finalizers,
                  deletionTimestamp |-> root.deletionTimestamp,
                  spec |-> root.spec, status |-> root.status ]
       IN  IF fail
             THEN /\ inv' = [inv EXCEPT ![w] =
                       Finish(Log(r, "Get", "root", "err"), "error", 0)]
                  /\ UNCHANGED fresh
           ELSE IF ~root.exists
             THEN /\ inv' = [inv EXCEPT ![w] = RootNotFound(r)]
                  /\ UNCHANGED fresh
           ELSE /\ inv' = [inv EXCEPT ![w] =
                       [Log(r, "Get", "root", "ok") EXCEPT
                          !.obj = o, !.pc = AfterFetch(o)]]
                /\ fresh' = [fresh EXCEPT ![w] = TRUE]
  /\ UNCHANGED << root, children, crds, classes, existing, finalizerPersisted >>

\* A faulty handler: the root is updated even when it carries no finalizer.
HandleDeletionAlwaysUpdates(w) ==
  /\ inv[w].pc = "handleDeletion"
  /\ \E fail \in FaultChoices(inv[w]) :
       LET ok == RootWritable(w, fail)
           o == [inv[w].obj EXCEPT !.finalizers = @ \ {finalizerName}]
           r == Log(Faulted([inv[w] EXCEPT !.obj = o], fail),
                    "Update", "root", RootWriteOutcome(w, fail))
       IN  /\ inv' = [inv EXCEPT ![w] =
                 IF ok THEN Finish(r, "noRequeue", 0)
                       ELSE Finish(r, "error", 0)]
           /\ root' = IF ~ok THEN root
                      ELSE IF o.finalizers = {} THEN GoneRoot
                      ELSE [root EXCEPT !.finalizers = o.finalizers,
                                        !.spec = o.spec]
           /\ fresh' = IF ok THEN [v \in DOMAIN inv |-> v = w /\ o.finalizers # {}]
                             ELSE fresh
  /\ UNCHANGED << children, crds, classes, existing, finalizerPersisted >>

\* A faulty handler: it deletes the children itself before it removes the
\* finalizer.
HandleDeletionDeletesChildren(w) ==
  /\ inv[w].pc = "handleDeletion"
  /\ IF finalizerName \notin inv[w].obj.finalizers
       THEN /\ inv' = [inv EXCEPT ![w] = Finish(@, "noRequeue", 0)]
            /\ UNCHANGED << root, fresh, children >>
       ELSE \E fail \in FaultChoices(inv[w]) :
              LET ok == RootWritable(w, fail)
                  o == [inv[w].obj EXCEPT !.finalizers = @ \ {finalizerName}]
                  r == Log(Log(Faulted([inv[w] EXCEPT !.obj = o], fail),
                               "Delete", ModelServerDeployment, "ok"),
                           "Update", "root", RootWriteOutcome(w, fail))
              IN  /\ inv' = [inv EXCEPT ![w] =
                        IF ok THEN Finish(r, "noRequeue", 0)
                              ELSE Finish(r, "error", 0)]
                  /\ children' = [children EXCEPT ![ModelServerDeployment] = Absent]
                  /\ root' = IF ~ok THEN root
                             ELSE IF o.finalizers = {} THEN GoneRoot
                             ELSE [root EXCEPT !.finalizers = o.finalizers,
                                               !.spec = o.spec]
                  /\ fresh' = IF ok THEN [v \in DOMAIN inv |-> v = w /\ o.finalizers # {}]
                                    ELSE fresh
  /\ UNCHANGED << crds, classes, existing, finalizerPersisted >>

\* Lines 268-288: handleDeletion.  r.Update sends the object as it was
\* read, spec included, with the finalizer taken off.
HandleDeletion(w) ==
  /\ inv[w].pc = "handleDeletion"
  /\ IF finalizerName \notin inv[w].obj.finalizers
       THEN /\ inv' = [inv EXCEPT ![w] = Finish(@, "noRequeue", 0)]
            /\ UNCHANGED << root, fresh >>
       ELSE \E fail \in FaultChoices(inv[w]) :
              LET ok == RootWritable(w, fail)
                  o == [inv[w].obj EXCEPT !.finalizers = @ \ {finalizerName}]
                  r == Log(Faulted([inv[w] EXCEPT !.obj = o], fail),
                           "Update", "root", RootWriteOutcome(w, fail))
              IN  /\ inv' = [inv EXCEPT ![w] =
                        IF ok THEN Finish(r, "noRequeue", 0)
                              ELSE Finish(r, "error", 0)]
                  /\ root' = IF ~ok THEN root
                             ELSE IF o.finalizers = {} THEN GoneRoot
                             ELSE [root EXCEPT !.finalizers = o.finalizers,
                                               !.spec = o.spec]
                  /\ fresh' = IF ok THEN [v \in DOMAIN inv |-> v = w /\ o.finalizers # {}]
                                    ELSE fresh
  /\ UNCHANGED << children, crds, classes, existing, finalizerPersisted >>

\* Lines 95-101: AddFinalizer and r.Update, which sends the object as it
\* was read, spec included; the status is a subresource and not written.
AddFinalizer(w) ==
  /\ inv[w].pc = "addFinalizer"
  /\ \E fail \in FaultChoices(inv[w]) :
       LET ok == RootWritable(w, fail)
           o == [inv[w].obj EXCEPT !.finalizers = @ \cup {finalizerName}]
           r == Log(Faulted([inv[w] EXCEPT !.obj = o], fail),
                    "Update", "root", RootWriteOutcome(w, fail))
       IN  /\ inv' = [inv EXCEPT ![w] =
                 IF ok THEN [r EXCEPT !.pc = AfterFinalizer(o)]
                       ELSE Finish(r, "error", 0)]
           /\ root' = IF ok THEN [root EXCEPT !.finalizers = o.finalizers,
                                               !.spec = o.spec]
                            ELSE root
           /\ fresh' = IF ok THEN [v \in DOMAIN inv |-> v = w] ELSE fresh
           /\ finalizerPersisted' = (finalizerPersisted \/ ok)
  /\ UNCHANGED << children, crds, classes, existing >>

\* Lines 103-109: the initial phase.
SetInitialPhase(w) ==
  /\ inv[w].pc = "setInitialPhase"
  /\ \E fail \in FaultChoices(inv[w]) :
       LET ok == RootWritable(w, fail)
           o == [inv[w].obj EXCEPT !.status.phase = "Initializing"]
           r == Log(Faulted([inv[w] EXCEPT !.obj = o], fail),
                    "StatusUpdate", "root", RootWriteOutcome(w, fail))
       IN  /\ inv' = [inv EXCEPT ![w] =
                 IF ok THEN [r EXCEPT !.pc = "validate"]
                       ELSE Finish(r, "error", 0)]
           /\ StatusWritten(w, o, ok)
  /\ UNCHANGED << children, crds, classes, existing, finalizerPersisted >>

\* What the List of each capability type returns: an error from outside
\* for the types in errs, NoMatch for an unregistered type.  The trace
\* keeps NoMatch apart from every other return; listFailed records that
\* some List returned another error.
ProbeResults(errs) ==
  [t \in TypeSet |-> IF t \in errs THEN "err"
                     ELSE IF t \notin crds THEN "nomatch" ELSE "ok"]

\* A faulty gate: validatePrerequisites never returns an error.
PrerequisitesNeverFail(missing) == FALSE

\* Line 360: validatePrerequisites returns an error.
PrerequisitesFailed(missing) == Len(missing) > 0

\* Lines 111-133: validatePrerequisites (its four Lists) and the status
\* write that follows it on either branch.
ValidatePrerequisites(w) ==
  /\ inv[w].pc = "validate"
  /\ \E errs \in SUBSET TypeSet :
       /\ inv[w].faults + Cardinality(errs) <= MaxFaults
       /\ LET probe == ProbeResults(errs)
              missing == missingPrereqs(probe, classes, inv[w].obj.spec)
              r == [inv[w] EXCEPT
                      !.faults = @ + Cardinality(errs),
                      !.trace = @ \o [i \in 1..Len(Types) |->
                                        << "List", Types[i],
                                           IF probe[Types[i]] = "nomatch"
                                             THEN "nomatch" ELSE "returned" >>],
                      !.listFailed = (errs # {}),
                      !.missing = missing,
                      !.validated = IF PrerequisitesFailed(missing)
                                      THEN "missing" ELSE "ok"]
              old == inv[w].obj
          IN  IF PrerequisitesFailed(missing)
                THEN LET o == updateCondition(
                                [old EXCEPT
                                   !.status.prerequisitesValidated = FALSE,
                                   !.status.prerequisiteMessage = prerequisiteError(missing),
                                   !.status.phase = "PrerequisitesMissing"],
                                "PrerequisitesValidated", "False", "ValidationFailed",
                                prerequisiteError(missing))
                     IN  DropStatusUpdateAndFinish(w, r, o, "requeueAfter",
                                                   RequeuePrerequisites)
                ELSE LET o1 == IF ~old.status.prerequisitesValidated
                                 THEN updateCondition(
                                        [old EXCEPT
                                           !.status.prerequisitesValidated = TRUE,
                                           !.status.prerequisiteMessage =
                                             << "All prerequisites validated successfully" >>],
                                        "PrerequisitesValidated", "True", "Validated",
                                        << "Gateway API, GIE, and GatewayClass are present" >>)
                                 ELSE old
                         o == [o1 EXCEPT !.status.phase = "Deploying"]
                     IN  \E sfail \in FaultChoices(r) :
                           LET ok == RootWritable(w, sfail) IN
                           /\ inv' = [inv EXCEPT ![w] =
                                [Log(Faulted([r EXCEPT !.obj = o], sfail),
                                     "StatusUpdate", "root", RootWriteOutcome(w, sfail))
                                   EXCEPT !.pc = "upsertGet", !.step = 1]]
                           /\ StatusWritten(w, o, ok)
  /\ UNCHANGED << children, crds, classes, existing, finalizerPersisted >>

\* The condition type and reason Reconcile records when the upsert of
\* child c fails; none for the steps that only return the error.
FailureCondition(c) ==
  CASE c = "Deployment/vllm" -> << "ModelServerReady", "DeploymentFailed" >>
    [] c = "Deployment/epp" -> << "EPPReady", "DeploymentFailed" >>
    [] c = "InferencePool/pool" -> << "InferencePoolReady", "CreationFailed" >>
    [] c = "Gateway/gateway" -> << "GatewayReady", "CreationFailed" >>
    [] OTHER -> << >>

\* createOrUpdate of child c returned an error: r is the invocation after
\* the failed call.
UpsertFailed(w, r, c) ==
  IF FailureCondition(c) # << >>
    THEN DropStatusUpdateAndFinish(w, r,
           updateCondition(r.obj, FailureCondition(c)[1], "False",
                           FailureCondition(c)[2], << "error" >>),
           "error", 0)
    ELSE /\ inv' = [inv EXCEPT ![w] = Finish(r, "error", 0)]
         /\ UNCHANGED << root, fresh >>

\* A faulty sequencing: the model server's readiness is never checked.
AfterUpsertNoGate(r, c) ==
  CASE c = "Service/epp" -> [r EXCEPT !.pc = "checkEPP"]
    [] c = "InferencePool/pool" ->
         [r EXCEPT !.pc = "upsertGet", !.step = @ + 1,
                   !.obj = [updateCondition(r.obj, "InferencePoolReady", "True", "Ready",
                                            << "InferencePool created successfully" >>)
                              EXCEPT !.status.inferencePoolReady = TRUE]]
    [] c = "HTTPRoute/route" ->
         [r EXCEPT !.pc = "finalStatus",
                   !.obj = [updateCondition(r.obj, "GatewayReady", "True", "Ready",
                                            << "Gateway and HTTPRoute created successfully" >>)
                              EXCEPT !.status.gatewayReady = TRUE,
                                     !.status.phase = "Ready"]]
    [] OTHER -> [r EXCEPT !.pc = "upsertGet", !.step = @ + 1]

\* A faulty sequencing: the Gateway is reported ready as soon as it is
\* upserted, before the route.
AfterUpsertGatewayFirst(r, c) ==
  CASE c = "Service/vllm" -> [r EXCEPT !.pc = "checkModelServer"]
    [] c = "Service/epp" -> [r EXCEPT !.pc = "checkEPP"]
    [] c = "InferencePool/pool" ->
         [r EXCEPT !.pc = "upsertGet", !.step = @ + 1,
                   !.obj = [updateCondition(r.obj, "InferencePoolReady", "True", "Ready",
                                            << "InferencePool created successfully" >>)
                              EXCEPT !.status.inferencePoolReady = TRUE]]
    [] c = "Gateway/gateway" ->
         [r EXCEPT !.pc = "upsertGet", !.step = @ + 1,
                   !.obj = [updateCondition(r.obj, "GatewayReady", "True", "Ready",
                                            << "Gateway and HTTPRoute created successfully" >>)
                              EXCEPT !.status.gatewayReady = TRUE]]
    [] c = "HTTPRoute/route" ->
         [r EXCEPT !.pc = "finalStatus", !.obj.status.phase = "Ready"]
    [] OTHER -> [r EXCEPT !.pc = "upsertGet", !.step = @ + 1]

\* The step after the successful upsert of child c.
AfterUpsert(r, c) ==
  CASE c = "Service/vllm" -> [r EXCEPT !.pc = "checkModelServer"]
    [] c = "Service/epp" -> [r EXCEPT !.pc = "checkEPP"]
    [] c = "InferencePool/pool" ->
         [r EXCEPT !.pc = "upsertGet", !.step = @ + 1,
                   !.obj = [updateCondition(r.obj, "InferencePoolReady", "True", "Ready",
                                            << "InferencePool created successfully" >>)
                              EXCEPT !.status.inferencePoolReady = TRUE]]
    [] c = "HTTPRoute/route" ->
         [r EXCEPT !.pc = "finalStatus",
                   !.obj = [updateCondition(r.obj, "GatewayReady", "True", "Ready",
                                            << "Gateway and HTTPRoute created successfully" >>)
                              EXCEPT !.status.gatewayReady = TRUE,
                                     !.status.phase = "Ready"]]
    [] OTHER -> [r EXCEPT !.pc = "upsertGet", !.step = @ + 1]

\* A Get, Create or Update of child c reaches a registered type.
TypeServed(c) == TypeOfChild(c) = "core" \/ TypeOfChild(c) \in crds

\* createOrUpdate / createOrUpdateUnstructured, first half: r.Get.
UpsertGet(w) ==
  /\ inv[w].pc = "upsertGet"
  /\ \E fail \in FaultChoices(inv[w]) :
       LET c == Order[inv[w].step]
           ok == ~fail /\ TypeServed(c)
           found == children[c].present
           r == Log(Faulted(inv[w], fail), "Get", c,
                    IF fail THEN "err"
                    ELSE IF ~TypeServed(c) THEN "nomatch"
                    ELSE IF found THEN "ok" ELSE "notfound")
       IN  IF ok
             THEN /\ inv' = [inv EXCEPT ![w] = [r EXCEPT !.pc = "upsertWrite"]]
                  /\ existing' = [existing EXCEPT ![w] =
                                    IF found THEN "fresh" ELSE "absent"]
                  /\ UNCHANGED << root, fresh >>
             ELSE /\ UpsertFailed(w, r, c)
                  /\ UNCHANGED existing
  /\ UNCHANGED << children, crds, classes, finalizerPersisted >>

\* The other workers' reads of child c are stale once c changes.
Staled(w, c) ==
  [v \in DOMAIN inv |->
     IF v = w THEN "none"
     ELSE IF inv[v].pc = "upsertWrite" /\ Order[inv[v].step] = c
             /\ existing[v] = "fresh"
       THEN "stale" ELSE existing[v]]

\* A faulty Update: sent without the resourceVersion that was read, it is
\* never accepted.
WriteAcceptedCreateOnly(create, old, read) == create /\ ~old.present

\* A faulty engine: it leaves alone an object the root does not own (the
\* Update is not sent, the upsert returns an error).
WriteAcceptedOwnedOnly(create, old, read) ==
  IF create THEN ~old.present
  ELSE old.present /\ read = "fresh" /\ old.owner = "root"

\* A faulty store: every Create and Update is accepted.
WriteAcceptedAlways(create, old, read) == TRUE

\* The store accepts a Create when nothing is stored under the key, and an
\* Update when the object is stored with the resourceVersion that was read.
WriteAccepted(create, old, read) ==
  IF create THEN ~old.present ELSE old.present /\ read = "fresh"

\* A faulty Update: the stored payload is kept and only the owner set.
StoredMerged(create, old, c, o) ==
  IF create
    THEN [ present |-> TRUE, payload |-> Build(c, o),
           owner |-> "root", readyReplicas |-> 0, creator |-> "engine" ]
    ELSE [old EXCEPT !.owner = "root"]

\* What the store holds after a successful r.Create (Get found nothing) or
\* r.Update of child c: the descriptor with its controller reference.  An
\* Update replaces the whole object but its status subresource.
Stored(create, old, c, o) ==
  IF create
    THEN [ present |-> TRUE, payload |-> Build(c, o),
           owner |-> "root", readyReplicas |-> 0, creator |-> "engine" ]
    ELSE [old EXCEPT !.payload = Build(c, o), !.owner = "root"]

\* createOrUpdate / createOrUpdateUnstructured, second half: the owner
\* reference and r.Create (Get found nothing) or r.Update (whole object,
\* with the resourceVersion Get read).
UpsertWrite(w) ==
  /\ inv[w].pc = "upsertWrite"
  /\ \E fail \in FaultChoices(inv[w]) :
       LET c == Order[inv[w].step]
           old == children[c]
           create == existing[w] = "absent"
           ok == /\ ~fail
                 /\ TypeServed(c)
                 /\ WriteAccepted(create, old, existing[w])
           new == Stored(create, old, c, inv[w].obj)
           r == Log(Faulted(inv[w], fail),
                    IF create THEN "Create" ELSE "Update", c,
                    IF fail THEN "err"
                    ELSE IF ~TypeServed(c) THEN "nomatch"
                    ELSE IF create /\ old.present THEN "exists"
                    ELSE IF ~create /\ ~old.present THEN "notfound"
                    ELSE IF ~ok THEN "conflict"
                    ELSE "ok")
       IN  /\ children' = IF ok THEN [children EXCEPT ![c] = new] ELSE children
           /\ existing' = IF ok /\ new # old THEN Staled(w, c)
                          ELSE [existing EXCEPT ![w] = "none"]
           /\ IF ok
                THEN /\ inv' = [inv EXCEPT ![w] = AfterUpsert(r, c)]
                     /\ UNCHANGED << root, fresh >>
                ELSE UpsertFailed(w, r, c)
  /\ UNCHANGED << crds, classes, finalizerPersisted >>

\* A faulty check: more ready replicas are asked for than are declared.
isDeploymentReadyNever(d) == d.readyReplicas > d.payload.replicas

\* A faulty check: ready as soon as one replica is ready.
isDeploymentReadyAny(d) == d.readyReplicas > 0

\* Line 386: ready replicas against the declared replicas.
isDeploymentReady(d) == d.readyReplicas = d.payload.replicas

\* Lines 152-166: the model server's readiness check.
CheckModelServer(w) ==
  /\ inv[w].pc = "checkModelServer"
  /\ \E fail \in FaultChoices(inv[w]) :
       LET d == children[ModelServerDeployment]
           got == ~fail /\ d.present
           r == Log(Faulted(inv[w], fail), "IsReady", ModelServerDeployment,
                    IF fail THEN "err" ELSE IF ~d.present THEN "notfound" ELSE "ok")
           o == inv[w].obj
       IN  IF ~got
             THEN /\ inv' = [inv EXCEPT ![w] =
                       Finish([r EXCEPT !.readyMS = "err"], "error", 0)]
                  /\ UNCHANGED << root, fresh >>
           ELSE IF ~isDeploymentReady(d)
             THEN DropStatusUpdateAndFinish(w, [r EXCEPT !.readyMS = "false"],
                    [updateCondition(o, "ModelServerReady", "False", "NotReady",
                                     << "Model server pods are not ready yet" >>)
                       EXCEPT !.status.modelServerReplicas = 0],
                    "requeueAfter", RequeueNotReady)
           ELSE /\ inv' = [inv EXCEPT ![w] =
                     [r EXCEPT !.readyMS = "true", !.pc = "upsertGet", !.step = @ + 1,
                        !.obj = [updateCondition(o, "ModelServerReady", "True", "Ready",
                                                 << "All model server pods are running" >>)
                                   EXCEPT !.status.modelServerReplicas = o.spec.msReplicas]]]
                /\ UNCHANGED << root, fresh >>
  /\ UNCHANGED << children, crds, classes, existing, finalizerPersisted >>

\* Lines 205-219: the endpoint picker's readiness check.
CheckEPP(w) ==
  /\ inv[w].pc = "checkEPP"
  /\ \E fail \in FaultChoices(inv[w]) :
       LET d == children[EPPDeployment]
           got == ~fail /\ d.present
           r == Log(Faulted(inv[w], fail), "IsReady", EPPDeployment,
                    IF fail THEN "err" ELSE IF ~d.present THEN "notfound" ELSE "ok")
           o == inv[w].obj
       IN  IF ~got
             THEN /\ inv' = [inv EXCEPT ![w] =
                       Finish([r EXCEPT !.readyEPP = "err"], "error", 0)]
                  /\ UNCHANGED << root, fresh >>
           ELSE IF ~isDeploymentReady(d)
             THEN DropStatusUpdateAndFinish(w, [r EXCEPT !.readyEPP = "false"],
                    [updateCondition(o, "EPPReady", "False", "NotReady",
                                     << "EPP pods are not ready yet" >>)
                       EXCEPT !.status.eppReplicas = 0],
                    "requeueAfter", RequeueNotReady)
           ELSE /\ inv' = [inv EXCEPT ![w] =
                     [r EXCEPT !.readyEPP = "true", !.pc = "upsertGet", !.step = @ + 1,
                        !.obj = [updateCondition(o, "EPPReady", "True", "Ready",
                                                 << "EPP is running" >>)
                                   EXCEPT !.status.eppReplicas = o.spec.eppReplicas]]]
                /\ UNCHANGED << root, fresh >>
  /\ UNCHANGED << children, crds, classes, existing, finalizerPersisted >>

\* Lines 255-264: the final status update.
FinalStatusUpdate(w) ==
  /\ inv[w].pc = "finalStatus"
  /\ \E fail \in FaultChoices(inv[w]) :
       LET ok == RootWritable(w, fail)
           r == Log(Faulted(inv[w], fail), "StatusUpdate", "root", RootWriteOutcome(w, fail))
       IN  /\ inv' = [inv EXCEPT ![w] =
                 IF ok THEN Finish(r, "requeueAfter", RequeueReady)
                       ELSE Finish(r, "error", 0)]
           /\ StatusWritten(w, inv[w].obj, ok)
  /\ UNCHANGED << children, crds, classes, existing, finalizerPersisted >>

\* The driving scheduler takes the result; the worker is free again.  The
\* count of failed store calls runs over the whole behaviour.
Return(w) ==
  /\ inv[w].pc = "done"
  /\ inv' = [inv EXCEPT ![w] = [Idle EXCEPT !.faults = inv[w].faults]]
  /\ fresh' = [fresh EXCEPT ![w] = FALSE]
  /\ UNCHANGED << root, children, crds, classes, existing, finalizerPersisted >>

Reconcile(w) ==
  \/ Start(w)
  \/ HandleDeletion(w)
  \/ AddFinalizer(w)
  \/ SetInitialPhase(w)
  \/ ValidatePrerequisites(w)
  \/ UpsertGet(w)
  \/ UpsertWrite(w)
  \/ CheckModelServer(w)
  \/ CheckEPP(w)
  \/ FinalStatusUpdate(w)
  \/ Return(w)

(* ------------------------------------------------------------------ *)
(* The environment                                                     *)
(* ------------------------------------------------------------------ *)

\* The deployment controller reports a new ready-replica count.
SetReadyReplicas(c, n) ==
  /\ children[c].present
  /\ n <= children[c].payload.replicas
  /\ children[c].readyReplicas # n
  /\ children' = [children EXCEPT ![c].readyReplicas = n]
  /\ existing' = [v \in DOMAIN inv |->
                    IF inv[v].pc = "upsertWrite" /\ Order[inv[v].step] = c
                       /\ existing[v] = "fresh"
                      THEN "stale" ELSE existing[v]]
  /\ UNCHANGED << root, crds, classes, inv, fresh, finalizerPersisted >>

\* The user deletes the root: gone at once without finalizers, marked otherwise.
MarkDeleted ==
  /\ root.exists
  /\ ~root.deletionTimestamp
  /\ root' = IF root.finalizers = {} THEN GoneRoot
             ELSE [root EXCEPT !.deletionTimestamp = TRUE]
  /\ fresh' = [v \in DOMAIN inv |-> FALSE]
  /\ UNCHANGED << children, crds, classes, inv, existing, finalizerPersisted >>

\* The other controller releases the root once it is marked deleted.
RemoveOtherFinalizer ==
  /\ root.exists
  /\ root.deletionTimestamp
  /\ otherFinalizer \in root.finalizers
  /\ root' = IF root.deletionTimestamp /\ root.finalizers = {otherFinalizer}
               THEN GoneRoot
               ELSE [root EXCEPT !.finalizers = @ \ {otherFinalizer}]
  /\ fresh' = [v \in DOMAIN inv |-> FALSE]
  /\ UNCHANGED << children, crds, classes, inv, existing, finalizerPersisted >>

Environment ==
  \/ \E c \in {ModelServerDeployment, EPPDeployment}, n \in 0..MaxReplicas :
       SetReadyReplicas(c, n)
  \/ MarkDeleted
  \/ RemoveOtherFinalizer

\* No invocation is running.
AllIdle == \A w \in DOMAIN inv : inv[w].pc = "idle"

\* The environment acts between invocations; what another actor does to
\* an object during an invocation reaches the engine as a failed store
\* call (FaultChoices).
Next == (\E w \in Active : Reconcile(w)) \/ (AllIdle /\ Environment)

Spec == Init /\ [][Next]_vars

(* ------------------------------------------------------------------ *)
(* A cluster with every prerequisite, in which another actor has       *)
(* already created an object under the name of one of the children.    *)
(* Every store call succeeds.                                          *)
(* ------------------------------------------------------------------ *)

\* An object another actor created: a payload of its own, its own owner.
Foreign ==
  [ present |-> TRUE,
    payload |-> [kind |-> "foreign", replicas |-> 1, label |-> "kept"],
    owner |-> "other", readyReplicas |-> 0, creator |-> "other" ]

\* An object another actor created without any owner reference.
Unowned == [Foreign EXCEPT !.owner = "none"]

InitAdopt ==
  /\ \E s \in DesiredStates :
       root = [ exists |-> TRUE, finalizers |-> {otherFinalizer},
                deletionTimestamp |-> FALSE, spec |-> s, status |-> ZeroStatus ]
  /\ \E f \in Children, x \in {Foreign, Unowned} :
       children = [c \in Children |-> IF c = f THEN x ELSE Absent]
  /\ crds = TypeSet
  /\ classes = ClassNames
  /\ inv = [w \in Active |-> [Idle EXCEPT !.faults = MaxFaults]]
  /\ fresh = [w \in Active |-> FALSE]
  /\ existing = [w \in Active |-> "none"]
  /\ finalizerPersisted = FALSE

SpecAdopt == InitAdopt /\ [][Next]_vars

(* ------------------------------------------------------------------ *)
(* The same cluster, nothing stored at first; another writer and the   *)
(* deployment controller act between the read and the write of an      *)
(* upsert.  Every store call gets through.                             *)
(* ------------------------------------------------------------------ *)

\* Another writer stores its own version under the key of child c while
\* an invocation is between its read and its write of c; it does so once.
ForeignWrite(c) ==
  /\ \E w \in DOMAIN inv : inv[w].pc = "upsertWrite" /\ Order[inv[w].step] = c
  /\ \A d \in Children : children[d].creator # "other"
  /\ children' = [children EXCEPT ![c] = Foreign]
  /\ existing' = [v \in DOMAIN inv |->
                    IF inv[v].pc = "upsertWrite" /\ Order[inv[v].step] = c
                       /\ existing[v] = "fresh"
                      THEN "stale" ELSE existing[v]]
  /\ UNCHANGED << root, crds, classes, inv, fresh, finalizerPersisted >>

InitRace ==
  /\ \E s \in DesiredStates :
       root = [ exists |-> TRUE, finalizers |-> {otherFinalizer},
                deletionTimestamp |-> FALSE, spec |-> s, status |-> ZeroStatus ]
  /\ children = [c \in Children |-> Absent]
  /\ crds = TypeSet
  /\ classes = ClassNames
  /\ inv = [w \in Active |-> [Idle EXCEPT !.faults = MaxFaults]]
  /\ fresh = [w \in Active |-> FALSE]
  /\ existing = [w \in Active |-> "none"]
  /\ finalizerPersisted = FALSE

\* Reconcile of a root that is not marked deleted.
ReconcileLive(w) ==
  \/ Start(w)
  \/ AddFinalizer(w)
  \/ SetInitialPhase(w)
  \/ ValidatePrerequisites(w)
  \/ UpsertGet(w)
  \/ UpsertWrite(w)
  \/ CheckModelServer(w)
  \/ CheckEPP(w)
  \/ FinalStatusUpdate(w)
  \/ Return(w)

NextRace ==
  \/ \E w \in Active : ReconcileLive(w)
  \/ \E c \in Children : ForeignWrite(c)
  \/ \E c \in {ModelServerDeployment, EPPDeployment}, n \in 0..MaxReplicas :
       SetReadyReplicas(c, n)

SpecRace == InitRace /\ [][NextRace]_vars

(* ------------------------------------------------------------------ *)
(* Two invocations on the same root, in a cluster without the          *)
(* capability types: every invocation ends at validatePrerequisites,   *)
(* and the user and the other controller act between any two store     *)
(* calls.                                                              *)
(* ------------------------------------------------------------------ *)

\* The workers of a manager set up with two concurrent reconciles, or of
\* two managers.
Workers == {"w1", "w2"}

InitBare ==
  /\ \E s \in {d \in DesiredStates : d.className = ""} :
       root = [ exists |-> TRUE, finalizers |-> {otherFinalizer},
                deletionTimestamp |-> FALSE, spec |-> s, status |-> ZeroStatus ]
  /\ children = [c \in Children |-> Absent]
  /\ crds = {}
  /\ classes = {}
  /\ inv = [w \in Workers |-> Idle]
  /\ fresh = [w \in Workers |-> FALSE]
  /\ existing = [w \in Workers |-> "none"]
  /\ finalizerPersisted = FALSE

\* The steps of Reconcile up to the return after validatePrerequisites.
ReconcileGated(w) ==
  \/ Start(w)
  \/ HandleDeletion(w)
  \/ AddFinalizer(w)
  \/ SetInitialPhase(w)
  \/ ValidatePrerequisites(w)
  \/ Return(w)

NextBare ==
  \/ \E w \in Workers : ReconcileGated(w)
  \/ MarkDeleted
  \/ RemoveOtherFinalizer

SpecBare == InitBare /\ [][NextBare]_vars

(* ------------------------------------------------------------------ *)
(* The builders' ObjectMeta: the name and namespace of each child.      *)
(* ------------------------------------------------------------------ *)

RootNames == {"a", "llm-d"}
Namespaces == {"default", "prod"}

\* DesiredStates with the Gateway's optional name set and unset.
NamingStates ==
  { [className |-> d.className, msReplicas |-> d.msReplicas,
     eppReplicas |-> d.eppReplicas, gatewayName |-> g] :
       d \in DesiredStates, g \in {"", "edge"} }

\* Faulty builders: the name does not carry the root's name.
childNameUnprefixed(c, o) == c

\* A faulty buildGateway: a Gateway name set in the spec is used.
childNameFromSpec(c, o) ==
  IF c = "Gateway/gateway" /\ o.spec.gatewayName # ""
    THEN o.spec.gatewayName
    ELSE o.name \o "-gateway"

\* metadata.name as each builder formats it from the root's name.
childName(c, o) ==
  CASE c = "Deployment/vllm" -> o.name \o "-vllm"
    [] c = "Service/vllm" -> o.name \o "-vllm"
    [] c = "ServiceAccount/epp" -> o.name \o "-epp"
    [] c = "Role/epp" -> o.name \o "-epp"
    [] c = "RoleBinding/epp" -> o.name \o "-epp"
    [] c = "ConfigMap/epp-config" -> o.name \o "-epp-config"
    [] c = "Deployment/epp" -> o.name \o "-epp"
    [] c = "Service/epp" -> o.name \o "-epp"
    [] c = "InferencePool/pool" -> o.name \o "-pool"
    [] c = "Gateway/gateway" -> o.name \o "-gateway"
    [] c = "HTTPRoute/route" -> o.name \o "-route"

\* Faulty builders: every descriptor is stamped with the plugin block.
DescribeStamped(c, o) ==
  [ name |-> childName(c, o), namespace |-> o.namespace, spec |-> Build(c, o),
    stamp |-> pluginConfig(o.spec) ]

\* The descriptor a builder returns: its ObjectMeta and the rest.
Describe(c, o) ==
  [ name |-> childName(c, o), namespace |-> o.namespace, spec |-> Build(c, o) ]

InitNames ==
  /\ \E n \in RootNames, ns \in Namespaces, s \in NamingStates :
       root = [ exists |-> TRUE, name |-> n, namespace |-> ns,
                finalizers |-> {}, deletionTimestamp |-> FALSE,
                spec |-> s, status |-> ZeroStatus ]
  /\ children = [c \in Children |-> Absent]
  /\ crds = TypeSet
  /\ classes = ClassNames
  /\ inv = [w \in Active |-> Idle]
  /\ fresh = [w \in Active |-> FALSE]
  /\ existing = [w \in Active |-> "none"]
  /\ finalizerPersisted = FALSE

\* A builder is called for child c; its descriptor is kept under c.
BuildChild(c) ==
  /\ children' = [children EXCEPT ![c] =
                    [Absent EXCEPT !.present = TRUE, !.payload = Describe(c, root)]]
  /\ UNCHANGED << root, crds, classes, inv, fresh, existing, finalizerPersisted >>

\* The user edits the root's spec.
EditSpec(s) ==
  /\ root.spec # s
  /\ root' = [root EXCEPT !.spec = s]
  /\ UNCHANGED << children, crds, classes, inv, fresh, existing, finalizerPersisted >>

NextNames ==
  \/ \E c \in Children : BuildChild(c)
  \/ \E s \in NamingStates : EditSpec(s)

SpecNames == InitNames /\ [][NextNames]_vars

(* ------------------------------------------------------------------ *)
(* updateCondition with its clock: the conditions of one root, set      *)
(* again and again while time passes and the user edits the spec.       *)
(* ------------------------------------------------------------------ *)

ConditionTypes == {"ModelServerReady", "EPPReady"}

\* The reason and message pairs the engine passes for a status.
ReasonsFor(status) ==
  IF status = "True"
    THEN { << "Ready", "deployment is ready" >> }
    ELSE { << "NotReady", "deployment is not ready yet" >>,
           << "DeploymentFailed", "error" >> }

\* Lines 447-454: the condition updateCondition builds, metav1.Now() being
\* now.
Condition(o, type, status, reason, message, now) ==
  [ type |-> type, status |-> status, observedGeneration |-> o.generation,
    lastTransitionTime |-> now, reason |-> reason, message |-> message ]

\* The latest clock reading taken so far by worker w.
LastReading(w) ==
  IF inv[w].trace = << >> THEN 0 ELSE inv[w].trace[1][3].lastTransitionTime

InitConditions ==
  /\ root = [ exists |-> TRUE, generation |-> 1,
              finalizers |-> {finalizerName}, deletionTimestamp |-> FALSE,
              spec |-> CHOOSE d \in DesiredStates : d.className = "",
              status |-> ZeroStatus ]
  /\ children = [c \in Children |-> Absent]
  /\ crds = TypeSet
  /\ classes = ClassNames
  /\ inv = [w \in Active |-> Idle]
  /\ fresh = [w \in Active |-> FALSE]
  /\ existing = [w \in Active |-> "none"]
  /\ finalizerPersisted = TRUE

\* updateCondition (lines 441-457) on the root, at a clock reading that is
\* not before the previous one; the call is kept as the worker's trace.
SetCondition(w, type, status, now) ==
  /\ now >= LastReading(w)
  /\ \E rm \in ReasonsFor(status) :
       LET condition == Condition(root, type, status, rm[1], rm[2], now)
       IN  /\ root' = [root EXCEPT !.status.conditions =
                                     SetStatusCondition(@, condition)]
           /\ inv' = [inv EXCEPT ![w].trace =
                        << << "updateCondition", type, condition >> >>]
  /\ UNCHANGED << children, crds, classes, fresh, existing, finalizerPersisted >>

\* The user edits the spec: the store increments metadata.generation.
BumpGeneration ==
  /\ root.generation < MaxGeneration
  /\ root' = [root EXCEPT !.generation = @ + 1]
  /\ UNCHANGED << children, crds, classes, inv, fresh, existing, finalizerPersisted >>

NextConditions ==
  \/ \E w \in Active, type \in ConditionTypes, status \in {"True", "False"},
        now \in 0..MaxTime : SetCondition(w, type, status, now)
  \/ BumpGeneration

SpecConditions == InitConditions /\ [][NextConditions]_vars

(* ------------------------------------------------------------------ *)
(* The credential secret of the model server.  The model-server pods    *)
(* read HF_TOKEN from it (resources.go 95-108); without the secret no   *)
(* pod starts and the Deployment reports no ready replica.             *)
(* ------------------------------------------------------------------ *)

SecretKey == "Secret/hf-token"

UserSecret ==
  [ present |-> TRUE, payload |-> [kind |-> "Secret"], owner |-> "none",
    readyReplicas |-> 0, creator |-> "user" ]

InitSecret ==
  /\ \E s \in DesiredStates :
       root = [ exists |-> TRUE, finalizers |-> {otherFinalizer},
                deletionTimestamp |-> FALSE, spec |-> s, status |-> ZeroStatus ]
  /\ \E secret \in {Absent, UserSecret} :
       children = [c \in Children \cup {SecretKey} |->
                     IF c = SecretKey THEN secret ELSE Absent]
  /\ crds \in {TypeSet, TypeSet \ {"InferencePool"}}
  /\ classes = ClassNames
  /\ inv = [w \in Active |-> Idle]
  /\ fresh = [w \in Active |-> FALSE]
  /\ existing = [w \in Active |-> "none"]
  /\ finalizerPersisted = FALSE

\* The Deployment controller reports n ready replicas of workload c; the
\* model server has none as long as the secret is absent.
PodsReport(c, n) ==
  /\ c = ModelServerDeployment /\ ~children[SecretKey].present => n = 0
  /\ SetReadyReplicas(c, n)

\* The user creates the secret.
CreateSecret ==
  /\ ~children[SecretKey].present
  /\ children' = [children EXCEPT ![SecretKey] = UserSecret]
  /\ UNCHANGED << root, crds, classes, inv, fresh, existing, finalizerPersisted >>

NextSecret ==
  \/ \E w \in Active : ReconcileLive(w)
  \/ /\ AllIdle
     /\ \/ \E c \in {ModelServerDeployment, EPPDeployment}, n \in 0..MaxReplicas :
              PodsReport(c, n)
        \/ CreateSecret

SpecSecret == InitSecret /\ [][NextSecret]_vars

(* ------------------------------------------------------------------ *)
(* The routing-plugin block: passes of the builders between which the   *)
(* user edits a scorer weight.                                          *)
(* ------------------------------------------------------------------ *)

\* Weights in hundredths: 1.00, 1.04 and 1.50.
Weights == {100, 104, 150}

Scorer(enabled, weightNil, weight) ==
  [isNil |-> FALSE, enabled |-> enabled, weightNil |-> weightNil, weight |-> weight]

ScorerFields == {"loadAwareScorer", "prefixCacheScorer", "kvCacheUtilizationScorer"}

PluginChoices ==
  [ loadAwareScorer : {NilScorer, Scorer(TRUE, TRUE, 0), Scorer(FALSE, FALSE, 150)}
                        \cup {Scorer(TRUE, FALSE, h) : h \in Weights},
    prefixCacheScorer : {NilScorer, Scorer(TRUE, TRUE, 0), Scorer(TRUE, FALSE, 150)},
    kvCacheUtilizationScorer : {NilScorer, Scorer(TRUE, TRUE, 0)} ]

WeightStates ==
  { [className |-> d.className, msReplicas |-> d.msReplicas,
     eppReplicas |-> d.eppReplicas, plugins |-> p] :
       d \in DesiredStates, p \in PluginChoices }

InitWeights ==
  /\ \E s \in WeightStates :
       root = [ exists |-> TRUE, name |-> "llm-d", namespace |-> "default",
                finalizers |-> {finalizerName}, deletionTimestamp |-> FALSE,
                spec |-> s, status |-> ZeroStatus ]
  /\ children = [c \in Children |-> Absent]
  /\ crds = TypeSet
  /\ classes = ClassNames
  /\ inv = [w \in Active |-> Idle]
  /\ fresh = [w \in Active |-> FALSE]
  /\ existing = [w \in Active |-> "none"]
  /\ finalizerPersisted = TRUE

\* One pass of the builders: every child's descriptor is built from the
\* root and kept.
BuildAll ==
  /\ children' = [c \in Children |->
                    [Absent EXCEPT !.present = TRUE, !.payload = Describe(c, root)]]
  /\ UNCHANGED << root, crds, classes, inv, fresh, existing, finalizerPersisted >>

\* The user sets the weight of a scorer that is in the spec.
EditWeight(f, h) ==
  /\ ~root.spec.plugins[f].isNil
  /\ root.spec.plugins[f].weightNil \/ root.spec.plugins[f].weight # h
  /\ root' = [root EXCEPT !.spec.plugins[f].weightNil = FALSE,
                          !.spec.plugins[f].weight = h]
  /\ UNCHANGED << children, crds, classes, inv, fresh, existing, finalizerPersisted >>

NextWeights ==
  \/ BuildAll
  \/ \E f \in ScorerFields, h \in Weights : EditWeight(f, h)

SpecWeights == InitWeights /\ [][NextWeights]_vars

(* ------------------------------------------------------------------ *)
(* Optional fields of the spec, set and left unset, as the builders     *)
(* get them when the API server filled in no default.                   *)
(* ------------------------------------------------------------------ *)

\* A zero or an empty string is the field left unset.
DefaultStates ==
  [ className : {"", "istio"}, msReplicas : {0, 1}, eppReplicas : {0, 1},
    msPort : {0, 8080}, grpcPort : {0, 9100}, listenerPort : {0, 8081} ]

InitDefaults ==
  /\ \E s \in DefaultStates :
       root = [ exists |-> TRUE, name |-> "llm-d", namespace |-> "default",
                finalizers |-> {finalizerName}, deletionTimestamp |-> FALSE,
                spec |-> s, status |-> ZeroStatus ]
  /\ children = [c \in Children |-> Absent]
  /\ crds = TypeSet
  /\ classes = ClassNames
  /\ inv = [w \in Active |-> Idle]
  /\ fresh = [w \in Active |-> FALSE]
  /\ existing = [w \in Active |-> "none"]
  /\ finalizerPersisted = TRUE

NextDefaults ==
  \/ BuildAll
  \/ \E s \in DefaultStates : EditSpec(s)

SpecDefaults == InitDefaults /\ [][NextDefaults]_vars

(* ------------------------------------------------------------------ *)
(* Two roots: the descriptors built for another root, kept next to the  *)
(* root of the state.                                                  *)
(* ------------------------------------------------------------------ *)

\* Root names of which one extends another by a child suffix.
RivalNames == {"a", "a-epp", "a-vllm", "a-epp-config"}

InitRivals ==
  /\ \E n \in RivalNames, ns \in Namespaces, s \in DesiredStates :
       root = [ exists |-> TRUE, name |-> n, namespace |-> ns,
                finalizers |-> {finalizerName}, deletionTimestamp |-> FALSE,
                spec |-> s, status |-> ZeroStatus ]
  /\ children = [c \in Children |-> Absent]
  /\ crds = TypeSet
  /\ classes = ClassNames
  /\ inv = [w \in Active |-> Idle]
  /\ fresh = [w \in Active |-> FALSE]
  /\ existing = [w \in Active |-> "none"]
  /\ finalizerPersisted = TRUE

\* One pass of the builders for the root named n in namespace ns; each
\* descriptor is kept with the root it was built for.
BuildAllFor(n, ns, s) ==
  /\ LET other == [root EXCEPT !.name = n, !.namespace = ns, !.spec = s]
     IN  children' = [c \in Children |->
                        [Absent EXCEPT !.present = TRUE,
                                       !.payload = Describe(c, other),
                                       !.owner = << n, ns >>]]
  /\ UNCHANGED << root, crds, classes, inv, fresh, existing, finalizerPersisted >>

NextRivals ==
  \E n \in RivalNames, ns \in Namespaces, s \in DesiredStates : BuildAllFor(n, ns, s)

SpecRivals == InitRivals /\ [][NextRivals]_vars

(* ------------------------------------------------------------------ *)
(* Two invocations on the same root in a cluster with every             *)
(* prerequisite: both run the whole of Reconcile, every store call gets *)
(* through, and between invocations the user edits the spec and the     *)
(* deployment controller reports.                                       *)
(* ------------------------------------------------------------------ *)

\* The user edits the spec of the stored root: a new resourceVersion.
UserEditsSpec(s) ==
  /\ root.exists
  /\ root.spec # s
  /\ root' = [root EXCEPT !.spec = s]
  /\ fresh' = [v \in DOMAIN inv |-> FALSE]
  /\ UNCHANGED << children, crds, classes, inv, existing, finalizerPersisted >>

InitTwin ==
  /\ \E s \in DesiredStates :
       root = [ exists |-> TRUE, finalizers |-> {otherFinalizer},
                deletionTimestamp |-> FALSE, spec |-> s, status |-> ZeroStatus ]
  /\ children = [c \in Children |-> Absent]
  /\ crds = TypeSet
  /\ classes = ClassNames
  /\ inv = [w \in Workers |-> [Idle EXCEPT !.faults = MaxFaults]]
  /\ fresh = [w \in Workers |-> FALSE]
  /\ existing = [w \in Workers |-> "none"]
  /\ finalizerPersisted = FALSE

\* The deployment controller reports every declared replica of workload c
\* ready.
AllReplicasReady(c) ==
  /\ children[c].present
  /\ SetReadyReplicas(c, children[c].payload.replicas)

NextTwin ==
  \/ \E w \in Workers : ReconcileLive(w)
  \/ /\ AllIdle
     /\ \/ \E c \in {ModelServerDeployment, EPPDeployment} : AllReplicasReady(c)
        \/ \E s \in DesiredStates : UserEditsSpec(s)

SpecTwin == InitTwin /\ [][NextTwin]_vars

(* ------------------------------------------------------------------ *)
(* An invocation that is cut short (its context cancelled, the manager  *)
(* killed) after any of its store calls, and the invocations that run   *)
(* after it.  Every store call gets through.                            *)
(* ------------------------------------------------------------------ *)

\* The children in cs after createOrUpdate of each, built from root o.
UpsertedAll(ch, cs, o) ==
  [c \in DOMAIN ch |->
     IF c \in cs THEN Stored(~ch[c].present, ch[c], c, o) ELSE ch[c]]

\* Lines 103-264 run from the stored root o and the stored children ch
\* with every store call succeeding and no other writer: the status and
\* the children Reconcile leaves stored when it returns.
WholePass(o, ch) ==
  LET o1 == IF AfterFinalizer(o) = "setInitialPhase"
              THEN [o EXCEPT !.status.phase = "Initializing"] ELSE o
      missing == missingPrereqs(ProbeResults({}), classes, o.spec)
      oMissing == updateCondition(
                    [o1 EXCEPT !.status.prerequisitesValidated = FALSE,
                               !.status.prerequisiteMessage = prerequisiteError(missing),
                               !.status.phase = "PrerequisitesMissing"],
                    "PrerequisitesValidated", "False", "ValidationFailed",
                    prerequisiteError(missing))
      o2 == [ (IF ~o1.status.prerequisitesValidated
                 THEN updateCondition(
                        [o1 EXCEPT !.status.prerequisitesValidated = TRUE,
                                   !.status.prerequisiteMessage =
                                     << "All prerequisites validated successfully" >>],
                        "PrerequisitesValidated", "True", "Validated",
                        << "Gateway API, GIE, and GatewayClass are present" >>)
                 ELSE o1)
              EXCEPT !.status.phase = "Deploying" ]
      ch1 == UpsertedAll(ch, {"Deployment/vllm", "Service/vllm"}, o)
      oMSFalse == [updateCondition(o2, "ModelServerReady", "False", "NotReady",
                                   << "Model server pods are not ready yet" >>)
                     EXCEPT !.status.modelServerReplicas = 0]
      o3 == [updateCondition(o2, "ModelServerReady", "True", "Ready",
                             << "All model server pods are running" >>)
               EXCEPT !.status.modelServerReplicas = o.spec.msReplicas]
      ch2 == UpsertedAll(ch1, {"ServiceAccount/epp", "Role/epp", "RoleBinding/epp",
                               "ConfigMap/epp-config", "Deployment/epp",
                               "Service/epp"}, o)
      oEPPFalse == [updateCondition(o3, "EPPReady", "False", "NotReady",
                                    << "EPP pods are not ready yet" >>)
                      EXCEPT !.status.eppReplicas = 0]
      o4 == [updateCondition(o3, "EPPReady", "True", "Ready", << "EPP is running" >>)
               EXCEPT !.status.eppReplicas = o.spec.eppReplicas]
      ch3 == UpsertedAll(ch2, {"InferencePool/pool", "Gateway/gateway",
                               "HTTPRoute/route"}, o)
      o5 == AfterUpsert([pc |-> "upsertWrite", step |-> 9, obj |-> o4],
                        "InferencePool/pool").obj
      o6 == AfterUpsert([pc |-> "upsertWrite", step |-> 11, obj |-> o5],
                        "HTTPRoute/route").obj
  IN  IF PrerequisitesFailed(missing)
        THEN [status |-> oMissing.status, children |-> ch]
      ELSE IF ~isDeploymentReady(ch1[ModelServerDeployment])
        THEN [status |-> oMSFalse.status, children |-> ch1]
      ELSE IF ~isDeploymentReady(ch2[EPPDeployment])
        THEN [status |-> oEPPFalse.status, children |-> ch2]
      ELSE [status |-> o6.status, children |-> ch3]

\* The invocation of worker w is cut short where it stands: it issues no
\* further call and returns nothing.
Abort(w) ==
  /\ inv[w].pc \notin {"idle", "done", "aborted"}
  /\ inv' = [inv EXCEPT ![w].pc = "aborted"]
  /\ fresh' = [fresh EXCEPT ![w] = FALSE]
  /\ existing' = [existing EXCEPT ![w] = "none"]
  /\ UNCHANGED << root, children, crds, classes, finalizerPersisted >>

InitRestart ==
  /\ \E s \in DesiredStates :
       root = [ exists |-> TRUE, finalizers |-> {otherFinalizer},
                deletionTimestamp |-> FALSE, spec |-> s, status |-> ZeroStatus ]
  /\ children = [c \in Children |-> Absent]
  /\ crds \in {TypeSet, TypeSet \ {"InferencePool"}}
  /\ classes \in {ClassNames, {"istio"}}
  /\ inv = [w \in Workers |-> [Idle EXCEPT !.faults = MaxFaults]]
  /\ fresh = [w \in Workers |-> FALSE]
  /\ existing = [w \in Workers |-> "none"]
  /\ finalizerPersisted = FALSE

\* No invocation is running: each worker is free or was cut short.
Quiet == \A w \in DOMAIN inv : inv[w].pc \in {"idle", "aborted"}

\* Worker w1 runs invocations until one is cut short; w2 runs the
\* invocations after that.
NextRestart ==
  \/ ReconcileLive("w1")
  \/ Abort("w1")
  \/ inv["w1"].pc = "aborted" /\ ReconcileLive("w2")
  \/ /\ Quiet
     /\ \E c \in {ModelServerDeployment, EPPDeployment} : AllReplicasReady(c)

SpecRestart == InitRestart /\ [][NextRestart]_vars

(* ------------------------------------------------------------------ *)
(* A workload whose ready-replica count goes up and down between        *)
(* invocations, and a client that reads the root's phase between        *)
(* invocations.  Every prerequisite is present and every store call     *)
(* gets through.                                                       *)
(* ------------------------------------------------------------------ *)

\* The client that reads the root (kubectl get); it keeps its readings in
\* its trace.
Observer == "observer"

InitFlap ==
  /\ \E s \in DesiredStates :
       root = [ exists |-> TRUE, finalizers |-> {otherFinalizer},
                deletionTimestamp |-> FALSE, spec |-> s, status |-> ZeroStatus ]
  /\ children = [c \in Children |-> Absent]
  /\ crds = TypeSet
  /\ classes = ClassNames
  /\ inv = [w \in Active \cup {Observer} |-> [Idle EXCEPT !.faults = MaxFaults]]
  /\ fresh = [w \in Active \cup {Observer} |-> FALSE]
  /\ existing = [w \in Active \cup {Observer} |-> "none"]
  /\ finalizerPersisted = FALSE

\* The client reads the stored phase; a reading equal to its last one is
\* not kept.
ObservePhase ==
  /\ root.exists
  /\ Len(inv[Observer].trace) < MaxObserved
  /\ IF inv[Observer].trace = << >> THEN TRUE
     ELSE inv[Observer].trace[Len(inv[Observer].trace)] # root.status.phase
  /\ inv' = [inv EXCEPT ![Observer].trace = Append(@, root.status.phase)]
  /\ UNCHANGED << root, children, crds, classes, fresh, existing, finalizerPersisted >>

NextFlap ==
  \/ \E w \in Active : ReconcileLive(w)
  \/ /\ AllIdle
     /\ \/ \E c \in {ModelServerDeployment, EPPDeployment}, n \in 0..MaxReplicas :
              SetReadyReplicas(c, n)
        \/ ObservePhase

SpecFlap == InitFlap /\ [][NextFlap]_vars

(* ------------------------------------------------------------------ *)
(* A cluster that settles: every prerequisite is present, the pods of   *)
(* both workloads start one after the other and stay up, the root is    *)
(* not deleted, store calls fail MaxFaults times at most, and the       *)
(* driving scheduler invokes Reconcile again after every return.        *)
(* ------------------------------------------------------------------ *)

InitSettle ==
  /\ \E s \in DesiredStates :
       root = [ exists |-> TRUE, finalizers |-> {otherFinalizer},
                deletionTimestamp |-> FALSE, spec |-> s, status |-> ZeroStatus ]
  /\ children = [c \in Children |-> Absent]
  /\ crds = TypeSet
  /\ classes = ClassNames
  /\ inv = [w \in Active |-> Idle]
  /\ fresh = [w \in Active |-> FALSE]
  /\ existing = [w \in Active |-> "none"]
  /\ finalizerPersisted = FALSE

\* One more pod of workload c is ready; the deployment controller
\* reports it.
PodStarts(c) ==
  /\ children[c].present
  /\ children[c].readyReplicas < children[c].payload.replicas
  /\ SetReadyReplicas(c, children[c].readyReplicas + 1)

Scheduler == \E w \in Active : ReconcileLive(w)

Pods == \E c \in {ModelServerDeployment, EPPDeployment} : PodStarts(c)

NextSettle == Scheduler \/ Pods

\* controller-runtime requeues after an error and after RequeueAfter, and
\* a started invocation runs to its return; the pods of a Deployment
\* whose prerequisites are met start.
SpecSettle ==
  InitSettle /\ [][NextSettle]_vars /\ WF_vars(Scheduler) /\ WF_vars(Pods)

(* ------------------------------------------------------------------ *)
(* The user edits the spec and deletes the root at any moment of an     *)
(* invocation.  Every prerequisite is present; a store call fails only  *)
(* by NotFound or Conflict.                                            *)
(* ------------------------------------------------------------------ *)

InitEdit ==
  /\ \E s \in DesiredStates :
       root = [ exists |-> TRUE, finalizers |-> {otherFinalizer},
                deletionTimestamp |-> FALSE, spec |-> s, status |-> ZeroStatus ]
  /\ children = [c \in Children |-> Absent]
  /\ crds = TypeSet
  /\ classes = ClassNames
  /\ inv = [w \in Active |-> [Idle EXCEPT !.faults = MaxFaults]]
  /\ fresh = [w \in Active |-> FALSE]
  /\ existing = [w \in Active |-> "none"]
  /\ finalizerPersisted = FALSE

NextEdit ==
  \/ \E w \in Active : Reconcile(w)
  \/ \E s \in DesiredStates : UserEditsSpec(s)
  \/ MarkDeleted
  \/ RemoveOtherFinalizer
  \/ AllIdle /\ \E c \in {ModelServerDeployment, EPPDeployment} : AllReplicasReady(c)

SpecEdit == InitEdit /\ [][NextEdit]_vars

(* ------------------------------------------------------------------ *)
(* Properties                                                          *)
(* ------------------------------------------------------------------ *)

\* Trace entries are << operation, target, outcome >>.
IsChildCall(e) == e[2] \in Children /\ e[1] \in {"Get", "Create", "Update"}

IsWrite(e) == e[1] \in {"Create", "Update", "StatusUpdate"}

IsChildWrite(e) == e[2] \in Children /\ e[1] \in {"Create", "Update"}

\* The upserts an invocation started: the Gets of createOrUpdate.
UpsertStarts(t) == SelectSeq(t, LAMBDA e : e[1] = "Get" /\ e[2] \in Children)

\* Child c was upserted successfully in trace t.
Upserted(t, c) ==
  \E i \in 1..Len(t) : IsChildWrite(t[i]) /\ t[i][2] = c /\ t[i][3] = "ok"

\* validatePrerequisites reported a missing prerequisite to invocation r.
ReportedMissing(r) == Len(r.missing) > 0

\* C1 (as amended): an invocation to which validatePrerequisites reports a
\* missing prerequisite issues no call on any child, read or write; every
\* store write it makes is on the root (the finalizer marker of lines
\* 95-101 when it was absent, and the status).
C1_FailClosed ==
  \A w \in DOMAIN inv :
    ReportedMissing(inv[w]) =>
      \A i \in 1..Len(inv[w].trace) :
        LET e == inv[w].trace[i] IN
        /\ e[2] \notin Children
        /\ IsWrite(e) => e[2] = "root"

\* An invocation ended on missing prerequisites after writing the status.
C1_Witness ==
  \E w \in DOMAIN inv :
    /\ inv[w].pc = "done"
    /\ ReportedMissing(inv[w])
    /\ inv[w].result = [kind |-> "requeueAfter", after |-> RequeuePrerequisites]
    /\ inv[w].trace[Len(inv[w].trace)] = << "StatusUpdate", "root", "ok" >>

\* C1 as stated: with a missing prerequisite no child call is issued and
\* the only store write is the root's status.
C1_OnlyStatusWritten ==
  \A w \in DOMAIN inv :
    ReportedMissing(inv[w]) =>
      \A i \in 1..Len(inv[w].trace) :
        LET e == inv[w].trace[i] IN
        /\ e[2] \notin Children
        /\ IsWrite(e) => e[1] = "StatusUpdate" /\ e[2] = "root"

\* C2: a write other than the root's Update happens only once the
\* finalizer has been persisted; a failed Update of the root ends the
\* invocation with an error, nothing issued after it; and a child the
\* engine created is stored only if the finalizer had been persisted.
C2_FinalizerBeforeChildren ==
  /\ \A c \in Children :
       children[c].present /\ children[c].creator = "engine" => finalizerPersisted
  /\ \A w \in DOMAIN inv :
       \A i \in 1..Len(inv[w].trace) :
         LET e == inv[w].trace[i] IN
         /\ IsWrite(e) /\ ~(e[1] = "Update" /\ e[2] = "root") => finalizerPersisted
         /\ e[1] = "Update" /\ e[2] = "root" /\ e[3] # "ok" =>
              /\ i = Len(inv[w].trace)
              /\ inv[w].pc = "done"
              /\ inv[w].result.kind = "error"

\* The invocation that attached the finalizer went on to create a child.
C2_Witness ==
  \E w \in DOMAIN inv :
    /\ finalizerPersisted
    /\ Len(inv[w].trace) >= 2
    /\ inv[w].trace[2] = << "Update", "root", "ok" >>
    /\ children[ModelServerDeployment].present
    /\ children[ModelServerDeployment].creator = "engine"

\* The order C3 states.
FixedOrder ==
  << "Deployment/vllm", "Service/vllm",
     "ServiceAccount/epp", "Role/epp", "RoleBinding/epp",
     "ConfigMap/epp-config", "Deployment/epp", "Service/epp",
     "InferencePool/pool", "Gateway/gateway", "HTTPRoute/route" >>

\* C3: the upserts an invocation starts are a prefix of the fixed order,
\* and each one starts only after the upsert of the child before it
\* succeeded in the same invocation.
C3_StrictOrder ==
  \A w \in DOMAIN inv :
    LET t == inv[w].trace
        u == UpsertStarts(t)
    IN  /\ Len(u) <= Len(FixedOrder)
        /\ \A k \in 1..Len(u) : u[k][2] = FixedOrder[k]
        /\ \A k \in 2..Len(u) : Upserted(t, FixedOrder[k-1])
        /\ \A i \in 1..Len(t) :
             IsChildWrite(t[i]) => i > 1 /\ t[i-1][1] = "Get" /\ t[i-1][2] = t[i][2]

\* An invocation upserted all eleven children.
C3_Witness ==
  \E w \in DOMAIN inv :
    /\ Len(UpsertStarts(inv[w].trace)) = Len(FixedOrder)
    /\ \A c \in Children : Upserted(inv[w].trace, c)


\* The stored or in-memory status st has condition type ty with status v.
ConditionIs(st, ty, v) ==
  \E i \in 1..Len(st.conditions) :
    st.conditions[i].type = ty /\ st.conditions[i].status = v

\* The children upserted after child c in the fixed order.
After(c) ==
  LET k == CHOOSE i \in 1..Len(FixedOrder) : FixedOrder[i] = c
  IN  {FixedOrder[j] : j \in (k+1)..Len(FixedOrder)}

\* No upsert of a child in cs was started in trace t.
NoneUpserted(t, cs) == \A i \in 1..Len(t) : IsChildCall(t[i]) => t[i][2] \notin cs

NotReadyResult == [kind |-> "requeueAfter", after |-> RequeueNotReady]

\* C4: a workload found not ready stops the invocation before the
\* children after it; the invocation returns requeue-after 30s, and the
\* stored status has the workload's condition False and phase Deploying.
C4_ReadinessGate ==
  \A w \in DOMAIN inv :
    LET r == inv[w] IN
    /\ r.readyMS = "false" =>
         /\ NoneUpserted(r.trace, After("Service/vllm"))
         /\ r.pc = "done" /\ r.result = NotReadyResult
         /\ ConditionIs(root.status, "ModelServerReady", "False")
         /\ root.status.phase = "Deploying"
    /\ r.readyEPP = "false" =>
         /\ NoneUpserted(r.trace, After("Service/epp"))
         /\ r.pc = "done" /\ r.result = NotReadyResult
         /\ ConditionIs(root.status, "EPPReady", "False")
         /\ root.status.phase = "Deploying"

\* The step of worker w is a successful status write of phase Ready.
PersistsReady(w) ==
  /\ inv'[w].trace # inv[w].trace
  /\ Len(inv'[w].trace) > 0
  /\ inv'[w].trace[Len(inv'[w].trace)] = << "StatusUpdate", "root", "ok" >>
  /\ root'.status.phase = "Ready"

\* C5: a step that persists phase Ready belongs to an invocation in which
\* validatePrerequisites returned no error, every child was upserted
\* successfully and both readiness checks returned true, and it ends that
\* invocation with requeue-after 5 minutes and no error.
C5_ReadyOnlyAfterSuccess ==
  [][ \A w \in DOMAIN inv :
        PersistsReady(w) =>
          /\ inv'[w].validated = "ok"
          /\ \A c \in Children : Upserted(inv'[w].trace, c)
          /\ inv'[w].readyMS = "true"
          /\ inv'[w].readyEPP = "true"
          /\ inv'[w].pc = "done"
          /\ inv'[w].result = [kind |-> "requeueAfter", after |-> RequeueReady] ]_vars

\* An invocation has just persisted phase Ready.
C5_Witness ==
  \E w \in DOMAIN inv :
    /\ inv[w].pc = "done"
    /\ inv[w].readyMS = "true" /\ inv[w].readyEPP = "true"
    /\ inv[w].trace[Len(inv[w].trace)] = << "StatusUpdate", "root", "ok" >>
    /\ inv[w].result.kind = "requeueAfter"
    /\ root.status.phase = "Ready"

\* C6: an invocation to which validatePrerequisites reported unmet
\* requirements returns requeue-after 60s with no error, and the stored
\* status has phase PrerequisitesMissing, the flag false, the condition
\* False and a message with every reported item.
C6_MissingOutcome ==
  \A w \in DOMAIN inv :
    LET r == inv[w] IN
    r.pc = "done" /\ ReportedMissing(r) =>
      /\ r.result = [kind |-> "requeueAfter", after |-> RequeuePrerequisites]
      /\ root.status.phase = "PrerequisitesMissing"
      /\ ~root.status.prerequisitesValidated
      /\ ConditionIs(root.status, "PrerequisitesValidated", "False")
      /\ \A i \in 1..Len(r.missing) :
           \E j \in 1..Len(root.status.prerequisiteMessage) :
             root.status.prerequisiteMessage[j] = r.missing[i]

\* C7: when a List of validatePrerequisites fails with an error other
\* than NoMatch, the prerequisites are not reported satisfied, no child
\* call follows and the invocation ends with an error.
C7_ProbeErrors ==
  \A w \in DOMAIN inv :
    LET r == inv[w] IN
    r.listFailed =>
      /\ r.validated # "ok"
      /\ NoneUpserted(r.trace, Children)
      /\ r.pc = "done" => r.result.kind = "error"

\* The GatewayClass name the root asks for.
RequestedClass(o) == getDefaultString(o.spec.className, "kgateway")

\* C8: with all four capability types registered, validation passes iff
\* an installed GatewayClass has the requested name; otherwise the
\* missing list is exactly the entry naming that class, and the invocation
\* ends with phase PrerequisitesMissing stored and requeue-after 60s.
C8_NamedClassCheck ==
  \A w \in DOMAIN inv :
    LET r == inv[w] IN
    r.validated # "notrun" /\ crds = TypeSet =>
      /\ r.validated = "ok" <=> RequestedClass(r.obj) \in classes
      /\ RequestedClass(r.obj) \notin classes =>
           /\ r.missing = << ClassEntry(RequestedClass(r.obj)) >>
           /\ r.pc = "done"
           /\ r.result = [kind |-> "requeueAfter", after |-> RequeuePrerequisites]
           /\ root.status.phase = "PrerequisitesMissing"

\* A call of createOrUpdate on a child that makes it return an error.
IsFailedUpsertCall(e) ==
  /\ IsChildCall(e)
  /\ IF e[1] = "Get" THEN e[3] \notin {"ok", "notfound"} ELSE e[3] # "ok"

\* C9: when the upsert of a child returns an error the invocation ends
\* with an error, calls no child after it, and the stored status has a
\* condition with status False.
C9_UpsertFailure ==
  \A w \in DOMAIN inv :
    LET r == inv[w] IN
    \A i \in 1..Len(r.trace) :
      IsFailedUpsertCall(r.trace[i]) =>
        /\ r.pc = "done" /\ r.result.kind = "error"
        /\ \A j \in (i+1)..Len(r.trace) : r.trace[j][2] \notin Children
        /\ \E k \in 1..Len(root.status.conditions) :
             root.status.conditions[k].status = "False"

\* A store write or list of trace t failed, other than with NotFound or NoMatch.
StoreFailure(r) ==
  \/ r.listFailed
  \/ \E i \in 1..Len(r.trace) :
       IsWrite(r.trace[i]) /\ r.trace[i][3] \in {"err", "conflict", "exists"}

\* C10: an invocation in which a store create, update, status update or
\* list failed (other than NotFound / NoMatch) ends with an error.
C10_HardErrors ==
  \A w \in DOMAIN inv :
    inv[w].pc = "done" /\ StoreFailure(inv[w]) => inv[w].result.kind = "error"

\* The calls of the deletion path: the Get of the root and its Update.
IsDeletionCall(e) == e[2] = "root" /\ e[1] \in {"Get", "Update"}

\* C11: an invocation that read the root with the deletion marker issues
\* nothing but the root's Get and at most one Update of the root (no List,
\* no child call, no status write); when the root it read carries the
\* finalizer, its next step is that Update, without the finalizer, and the
\* invocation ends there; when the Update succeeds the stored root no
\* longer carries the finalizer.
C11_DeletionRouting ==
  [][ \A w \in DOMAIN inv :
        /\ inv'[w].obj.deletionTimestamp =>
             /\ \A i \in 1..Len(inv'[w].trace) : IsDeletionCall(inv'[w].trace[i])
             /\ Len(inv'[w].trace) <= 2
        /\ ( /\ inv[w].obj.deletionTimestamp
             /\ inv[w].pc = "handleDeletion"
             /\ finalizerName \in inv[w].obj.finalizers
             /\ inv'[w] # inv[w] ) =>
             /\ Len(inv'[w].trace) = 2
             /\ inv'[w].trace[2][1] = "Update" /\ inv'[w].trace[2][2] = "root"
             /\ finalizerName \notin inv'[w].obj.finalizers
             /\ inv'[w].pc = "done"
             /\ inv'[w].trace[2][3] = "ok" =>
                  /\ finalizerName \notin root'.finalizers
                  /\ inv'[w].result = [kind |-> "noRequeue", after |-> 0] ]_vars

\* A root that reached phase Ready was marked deleted, and one invocation
\* removed the finalizer and persisted the root.
C11_Witness ==
  \E w \in DOMAIN inv :
    /\ inv[w].pc = "done"
    /\ inv[w].obj.deletionTimestamp
    /\ inv[w].obj.status.phase = "Ready"
    /\ inv[w].trace = << << "Get", "root", "ok" >>, << "Update", "root", "ok" >> >>
    /\ root.exists /\ finalizerName \notin root.finalizers

\* C12: no step re-adds the finalizer to a root that carries the deletion
\* marker and not the finalizer, whatever the two invocations, the user
\* and the other controller interleave.
C12_FinalizerNotReadded ==
  [][ root.deletionTimestamp /\ finalizerName \notin root.finalizers =>
        finalizerName \notin root'.finalizers ]_vars

\* The finalizer was attached and then removed under the deletion marker;
\* the root is still stored, and an invocation that read it before the
\* removal attempts its own write of the root after it.
C12_Witness ==
  \E w \in DOMAIN inv :
    /\ finalizerPersisted
    /\ root.exists /\ root.deletionTimestamp
    /\ finalizerName \notin root.finalizers
    /\ inv[w].pc = "done"
    /\ Len(inv[w].trace) = 2
    /\ inv[w].trace[2] = << "Update", "root", "conflict" >>

\* C13: the step of the deletion handler on a root read with the deletion
\* marker and without the finalizer issues no store call, leaves the
\* store as it is and returns no-requeue with no error.
C13_DeletionNoOp ==
  [][ \A w \in DOMAIN inv :
        ( /\ inv[w].pc = "handleDeletion"
          /\ finalizerName \notin inv[w].obj.finalizers
          /\ inv'[w] # inv[w] ) =>
          /\ inv'[w].trace = inv[w].trace
          /\ \A i \in 1..Len(inv'[w].trace) : ~IsWrite(inv'[w].trace[i])
          /\ root' = root /\ children' = children
          /\ inv'[w].pc = "done"
          /\ inv'[w].result = [kind |-> "noRequeue", after |-> 0] ]_vars

\* An invocation on a stored root with the marker and without the
\* finalizer has returned.
C13_Witness ==
  \E w \in DOMAIN inv :
    /\ inv[w].pc = "done"
    /\ inv[w].obj.deletionTimestamp
    /\ inv[w].trace = << << "Get", "root", "ok" >> >>
    /\ inv[w].result.kind = "noRequeue"
    /\ root.exists /\ finalizerName \notin root.finalizers

\* C14: no invocation issues a delete call, and no step of an invocation
\* takes a stored child away; an invocation that read the root with the
\* deletion marker writes nothing but the root, with Update; and when
\* that Update fails the invocation ends with an error and the stored
\* root is unchanged, the finalizer still on it.
C14_CascadeOnly ==
  [][ \A w \in DOMAIN inv :
        /\ \A i \in 1..Len(inv'[w].trace) : inv'[w].trace[i][1] # "Delete"
        /\ inv'[w] # inv[w] =>
             \A c \in Children : children[c].present => children'[c].present
        /\ inv'[w].obj.deletionTimestamp =>
             \A i \in 1..Len(inv'[w].trace) :
               IsWrite(inv'[w].trace[i]) =>
                 inv'[w].trace[i][1] = "Update" /\ inv'[w].trace[i][2] = "root"
        /\ ( /\ inv[w].pc = "handleDeletion"
             /\ finalizerName \in inv[w].obj.finalizers
             /\ inv'[w] # inv[w]
             /\ inv'[w].trace[Len(inv'[w].trace)][3] # "ok" ) =>
             /\ inv'[w].pc = "done"
             /\ inv'[w].result.kind = "error"
             /\ root' = root
             /\ finalizerName \in root'.finalizers ]_vars

\* The Update that removes the finalizer failed: the invocation returned
\* an error, the root keeps the finalizer and the children are still stored.
C14_Witness ==
  \E w \in DOMAIN inv :
    /\ inv[w].pc = "done"
    /\ inv[w].obj.deletionTimestamp
    /\ inv[w].trace = << << "Get", "root", "ok" >>, << "Update", "root", "err" >> >>
    /\ inv[w].result.kind = "error"
    /\ finalizerName \in root.finalizers
    /\ children[ModelServerDeployment].present

\* The step of worker w is a successful Create or Update of child c.
UpsertSucceeds(w, c) ==
  /\ inv[w].pc = "upsertWrite"
  /\ inv'[w].trace # inv[w].trace
  /\ inv'[w].trace[Len(inv[w].trace) + 1][1] \in {"Create", "Update"}
  /\ inv'[w].trace[Len(inv[w].trace) + 1][2] = c
  /\ inv'[w].trace[Len(inv[w].trace) + 1][3] = "ok"

\* C15: after a successful upsert of child c the store holds, under c's
\* key, an object whose payload is the descriptor's and nothing else, and
\* whose owner is the root, whether the object was absent or present
\* before; no other child changes.
C15_UpsertResult ==
  [][ \A w \in DOMAIN inv : \A c \in Children :
        UpsertSucceeds(w, c) =>
          /\ children'[c].present
          /\ children'[c].payload = Build(c, inv[w].obj)
          /\ children'[c].owner = "root"
          /\ \A d \in Children \ {c} : children'[d] = children[d] ]_vars

\* An object with another payload was stored under the key of a child,
\* and the upsert of that child has replaced it.
C15_Witness ==
  \E w \in DOMAIN inv : \E c \in Children :
    /\ children[c].present
    /\ children[c].creator = "other"
    /\ children[c].payload = Build(c, inv[w].obj)
    /\ children[c].owner = "root"
    /\ \E i \in 1..Len(inv[w].trace) : inv[w].trace[i] = << "Update", c, "ok" >>

\* The object under c's key is not the one worker w read: it was stored
\* or changed after the read of w's upsert.
ChangedSinceRead(w, c) ==
  /\ inv[w].pc = "upsertWrite"
  /\ Order[inv[w].step] = c
  /\ \/ existing[w] = "absent" /\ children[c].present
     \/ existing[w] = "stale"

\* C16: the write of an upsert whose target another writer stored or
\* changed after the upsert's read is rejected: the stored object stays
\* the other writer's, the call returns AlreadyExists or Conflict, and
\* the invocation ends with an error.
C16_OptimisticConcurrency ==
  [][ \A w \in DOMAIN inv : \A c \in Children :
        ChangedSinceRead(w, c) /\ inv'[w] # inv[w] =>
          /\ children' = children
          /\ inv'[w].trace[Len(inv[w].trace) + 1][2] = c
          /\ inv'[w].trace[Len(inv[w].trace) + 1][3] \in {"exists", "conflict"}
          /\ inv'[w].pc = "done"
          /\ inv'[w].result.kind = "error" ]_vars

\* Another writer stored its object between the read and the Update of an
\* upsert; the Update was rejected and the other writer's object is stored.
C16_Witness ==
  \E w \in DOMAIN inv : \E c \in Children :
    /\ inv[w].pc = "done"
    /\ inv[w].result.kind = "error"
    /\ \E i \in 1..Len(inv[w].trace) : inv[w].trace[i] = << "Update", c, "conflict" >>
    /\ children[c] = Foreign

\* The call a step of invocation r logs first; r2 is r after the step.
StepCall(r, r2) == r2.trace[Len(r.trace) + 1]

\* C17: an upsert of a child the engine already stored for the same
\* DesiredState, with nothing changed outside in between, builds the
\* descriptor that is stored, leaves every child's payload and owner as
\* they were, and is never rejected by a resourceVersion conflict.
C17_Idempotence ==
  [][ \A w \in DOMAIN inv : \A c \in Children :
        /\ inv[w].pc = "upsertWrite"
        /\ Order[inv[w].step] = c
        /\ children[c].present
        /\ inv'[w] # inv[w]
        => /\ Build(c, inv[w].obj) = children[c].payload
           /\ \A d \in Children :
                /\ children'[d].present = children[d].present
                /\ children'[d].payload = children[d].payload
                /\ children'[d].owner = children[d].owner
           /\ StepCall(inv[w], inv'[w])[1] = "Update"
           /\ StepCall(inv[w], inv'[w])[3] \notin {"conflict", "exists", "notfound"}
           /\ Stored(FALSE, Stored(TRUE, Absent, c, inv[w].obj), c, inv[w].obj)
                = Stored(TRUE, Absent, c, inv[w].obj) ]_vars

\* A second pass has updated every child, the last one included, and
\* every Update of it was accepted.
C17_Witness ==
  \E w \in DOMAIN inv :
    /\ \A c \in Children :
         \E i \in 1..Len(inv[w].trace) : inv[w].trace[i] = << "Update", c, "ok" >>
    /\ \A c \in Children : children[c].payload = Build(c, root)
    /\ inv[w].result = [kind |-> "requeueAfter", after |-> RequeueReady]

\* The fixed name suffix of each child.
FixedSuffix(c) ==
  CASE c \in {"Deployment/vllm", "Service/vllm"} -> "vllm"
    [] c \in {"ServiceAccount/epp", "Role/epp", "RoleBinding/epp",
              "Deployment/epp", "Service/epp"} -> "epp"
    [] c = "ConfigMap/epp-config" -> "epp-config"
    [] c = "InferencePool/pool" -> "pool"
    [] c = "Gateway/gateway" -> "gateway"
    [] c = "HTTPRoute/route" -> "route"

FullySatisfied(r) ==
  /\ r.pc = "done"
  /\ r.validated = "ok"
  /\ ~r.listFailed
  /\ \A i \in 1..Len(r.trace) :
       r.trace[i][3] \notin {"err", "conflict", "exists", "nomatch"}
  /\ r.readyMS = "true"
  /\ r.readyEPP = "true"

StoredChildren == {c \in Children : children[c].present}

\* Phase Ready and every readiness flag of the stored status.
ReadyStatus ==
  /\ root.status.phase = "Ready"
  /\ root.status.prerequisitesValidated
  /\ root.status.inferencePoolReady
  /\ root.status.gatewayReady

\* C19, as the engine behaves: a pass in a fully satisfied environment
\* ends with phase Ready and every readiness flag true, and eleven
\* children are stored: the two workloads, their two Services, the
\* ServiceAccount, Role, RoleBinding and ConfigMap of the router, the
\* pool, the Gateway and the route, named with six suffixes.
C19_ElevenChildren ==
  \A w \in DOMAIN inv :
    FullySatisfied(inv[w]) =>
      /\ ReadyStatus
      /\ StoredChildren =
           { "Deployment/vllm", "Service/vllm", "ServiceAccount/epp",
             "Role/epp", "RoleBinding/epp", "ConfigMap/epp-config",
             "Deployment/epp", "Service/epp", "InferencePool/pool",
             "Gateway/gateway", "HTTPRoute/route" }
      /\ Cardinality(StoredChildren) = 11
      /\ \A c \in StoredChildren : children[c].creator = "engine"
      /\ {FixedSuffix(c) : c \in StoredChildren} =
           {"vllm", "epp", "epp-config", "pool", "gateway", "route"}

\* C19 as stated: such a pass ends with phase Ready, every readiness flag
\* true, and exactly nine children, one for each of nine suffixes.
C19_NineChildren ==
  \A w \in DOMAIN inv :
    FullySatisfied(inv[w]) =>
      /\ ReadyStatus
      /\ Cardinality(StoredChildren) = 9
      /\ Cardinality({FixedSuffix(c) : c \in StoredChildren}) = 9

\* A pass in a fully satisfied environment has ended.
C19_Witness ==
  \E w \in DOMAIN inv :
    /\ FullySatisfied(inv[w])
    /\ inv[w].result = [kind |-> "requeueAfter", after |-> RequeueReady]
    /\ ReadyStatus

\* A step is a call of updateCondition by w for a type that is stored
\* as the i-th condition.
SetsStored(w, i) ==
  /\ inv'[w].trace # << >>
  /\ inv'[w] # inv[w] \/ root' # root
  /\ root'.generation = root.generation
  /\ i = FindStatusCondition(root.status.conditions, inv'[w].trace[1][2])
  /\ i # 0

\* C20, as the engine behaves: setting a stored condition type with the
\* stored status leaves its last-transition-time and updates reason,
\* message and observed generation; setting it with another status
\* updates the status too and sets the last-transition-time to the time
\* of the call, which is not before the stored one.  No other condition
\* changes and none is added.
C20_ConditionTimestamp ==
  [][ \A w \in DOMAIN inv : \A i \in 1..Len(root.status.conditions) :
        SetsStored(w, i) =>
          LET old == root.status.conditions[i]
              call == inv'[w].trace[1][3]
              new == root'.status.conditions[i]
          IN  /\ Len(root'.status.conditions) = Len(root.status.conditions)
              /\ \A j \in 1..Len(root.status.conditions) :
                   j # i => root'.status.conditions[j] = root.status.conditions[j]
              /\ IF call.status = old.status
                   THEN new = [old EXCEPT !.reason = call.reason,
                                          !.message = call.message,
                                          !.observedGeneration = call.observedGeneration]
                   ELSE /\ new = [call EXCEPT !.type = old.type]
                        /\ new.lastTransitionTime >= old.lastTransitionTime ]_vars

\* C20 as stated: with the stored status only reason and message are
\* updated; with another status the status is updated and the
\* last-transition-time set to the time of the call.
C20_OnlyReasonAndMessage ==
  [][ \A w \in DOMAIN inv : \A i \in 1..Len(root.status.conditions) :
        SetsStored(w, i) =>
          LET old == root.status.conditions[i]
              call == inv'[w].trace[1][3]
              new == root'.status.conditions[i]
          IN  IF call.status = old.status
                THEN new = [old EXCEPT !.reason = call.reason,
                                       !.message = call.message]
                ELSE /\ new.status = call.status
                     /\ new.lastTransitionTime = call.lastTransitionTime
                     /\ new.lastTransitionTime >= old.lastTransitionTime ]_vars

\* A condition was set at a later time with the status it had, with
\* another reason, and kept its earlier last-transition-time; another
\* condition took the time of a call that changed its status.
C20_Witness ==
  \E w \in DOMAIN inv :
    /\ inv[w].trace # << >>
    /\ inv[w].trace[1][1] = "updateCondition"
    /\ LET call == inv[w].trace[1][3]
           i == FindStatusCondition(root.status.conditions, call.type)
       IN  /\ i # 0
           /\ root.status.conditions[i].status = call.status
           /\ root.status.conditions[i].reason = call.reason
           /\ root.status.conditions[i].lastTransitionTime < call.lastTransitionTime
    /\ \E k \in 1..Len(root.status.conditions) :
         /\ root.status.conditions[k].status = "True"
         /\ root.status.conditions[k].lastTransitionTime > 0
         /\ root.status.conditions[k].observedGeneration = MaxGeneration

\* No two conditions of the list have the same type.
UniqueTypes(conds) ==
  \A i, j \in 1..Len(conds) : conds[i].type = conds[j].type => i = j

\* C21: the condition list of the stored status, and of the copy every
\* invocation works on, holds at most one condition per condition type.
C21_ConditionUniqueness ==
  /\ UniqueTypes(root.status.conditions)
  /\ \A w \in DOMAIN inv : UniqueTypes(inv[w].obj.status.conditions)

\* The stored status is Ready with its five conditions: ModelServerReady
\* and EPPReady were set False by earlier passes and True by a later one.
C21_Witness ==
  /\ root.status.phase = "Ready"
  /\ Len(root.status.conditions) = 5
  /\ \A i \in 1..Len(root.status.conditions) :
       root.status.conditions[i].status = "True"

\* C22: an invocation whose Get finds no root ends at once with
\* no-requeue and no error; that Get is its only store call and nothing
\* in the store is written.
C22_RootNotFound ==
  [][ \A w \in DOMAIN inv :
        /\ inv[w].pc = "idle"
        /\ ~root.exists
        /\ inv'[w] # inv[w]
        /\ inv'[w].trace[1] # << "Get", "root", "err" >>
        => /\ inv'[w].pc = "done"
           /\ inv'[w].result = [kind |-> "noRequeue", after |-> 0]
           /\ inv'[w].trace = << << "Get", "root", "notfound" >> >>
           /\ root' = root
           /\ children' = children ]_vars

\* An invocation on a root that is gone has ended, with children of
\* the root still stored.
C22_Witness ==
  \E w \in DOMAIN inv :
    /\ ~root.exists
    /\ inv[w].pc = "done"
    /\ inv[w].trace = << << "Get", "root", "notfound" >> >>
    /\ inv[w].result.kind = "noRequeue"
    /\ \E c \in Children : children[c].present

\* The last store call of invocation r persisted the status with phase
\* Ready.
ReadyPersisted(r) ==
  /\ Len(r.trace) > 0
  /\ r.trace[Len(r.trace)] = << "StatusUpdate", "root", "ok" >>
  /\ r.obj.status.phase = "Ready"

\* A readiness check of invocation r returned false.
ReadinessFalse(r) == r.readyMS = "false" \/ r.readyEPP = "false"

\* C23: an invocation returns one of no-requeue, requeue-after or error;
\* requeue-after comes with 60s exactly when prerequisites were reported
\* missing, with 30s exactly when a readiness check was false, with 5m
\* exactly when phase Ready was persisted, and with no other delay;
\* no-requeue without error is returned only when the root was not found
\* or carried the deletion marker.
C23_RequeueContract ==
  \A w \in DOMAIN inv :
    LET r == inv[w]
        requeue(d) == r.result = [kind |-> "requeueAfter", after |-> d]
    IN  r.pc = "done" =>
          /\ r.result.kind \in {"noRequeue", "requeueAfter", "error"}
          /\ r.result.kind = "requeueAfter" =>
               r.result.after \in {RequeuePrerequisites, RequeueNotReady, RequeueReady}
          /\ r.result.kind # "requeueAfter" => r.result.after = 0
          /\ requeue(RequeuePrerequisites) <=> ReportedMissing(r)
          /\ requeue(RequeueNotReady) <=> ReadinessFalse(r)
          /\ requeue(RequeueReady) <=> ReadyPersisted(r)
          /\ r.result.kind = "noRequeue" =>
               \/ r.trace = << << "Get", "root", "notfound" >> >>
               \/ r.trace[1] = << "Get", "root", "ok" >> /\ r.obj.deletionTimestamp

\* An invocation that started from a stored phase Ready found the
\* endpoint picker not ready and returned requeue-after 30s.
C23_Witness ==
  \E w \in DOMAIN inv :
    /\ inv[w].pc = "done"
    /\ inv[w].readyEPP = "false"
    /\ inv[w].result = [kind |-> "requeueAfter", after |-> RequeueNotReady]
    /\ \E i \in 1..Len(root.status.conditions) :
         /\ root.status.conditions[i].type = "GatewayReady"
         /\ root.status.conditions[i].status = "True"

\* What invocation r holds as the answer of the readiness check of c.
ReadinessOf(r, c) == IF c = ModelServerDeployment THEN r.readyMS ELSE r.readyEPP

\* C24: a readiness check that reads the workload answers true when the
\* stored ready-replica count equals the stored declared count at that
\* moment and false otherwise; one that cannot read the workload answers
\* with an error, and the invocation returns it.
C24_ReadinessPredicate ==
  [][ \A w \in DOMAIN inv : \A c \in {ModelServerDeployment, EPPDeployment} :
        /\ inv[w].pc = (IF c = ModelServerDeployment
                          THEN "checkModelServer" ELSE "checkEPP")
        /\ inv'[w] # inv[w]
        => /\ StepCall(inv[w], inv'[w])[1] = "IsReady"
           /\ StepCall(inv[w], inv'[w])[2] = c
           /\ IF StepCall(inv[w], inv'[w])[3] = "ok"
                THEN ReadinessOf(inv'[w], c) =
                       (IF children[c].readyReplicas = children[c].payload.replicas
                          THEN "true" ELSE "false")
                ELSE /\ ReadinessOf(inv'[w], c) = "err"
                     /\ inv'[w].pc = "done"
                     /\ inv'[w].result.kind = "error" ]_vars

\* A model server with some but not all of its replicas ready was
\* checked and found not ready.
C24_Witness ==
  \E w \in DOMAIN inv :
    /\ inv[w].readyMS = "false"
    /\ children[ModelServerDeployment].readyReplicas > 0
    /\ children[ModelServerDeployment].readyReplicas
         < children[ModelServerDeployment].payload.replicas

\* The position of a phase in Initializing, PrerequisitesMissing,
\* Deploying, Ready; the empty phase comes first.
PhaseRank(phase) ==
  CASE phase = "" -> 0
    [] phase = "Initializing" -> 1
    [] phase = "PrerequisitesMissing" -> 2
    [] phase = "Deploying" -> 3
    [] phase = "Ready" -> 4

\* Invocation r has met no failure so far: no prerequisite reported
\* missing, no store call failed, no readiness check false or unread.
NoFailure(r) ==
  /\ ~ReportedMissing(r)
  /\ ~r.listFailed
  /\ \A i \in 1..Len(r.trace) :
       r.trace[i][3] \notin {"err", "conflict", "exists", "nomatch"}
  /\ r.readyMS \in {"notrun", "true"}
  /\ r.readyEPP \in {"notrun", "true"}

\* C25: a step of an invocation that has met no failure never persists a
\* phase earlier than the stored one; in particular it leaves a stored
\* phase Ready.
C25_PhaseForward ==
  [][ \A w \in DOMAIN inv :
        /\ inv'[w] # inv[w]
        /\ NoFailure(inv'[w])
        /\ root.exists /\ root'.exists
        => PhaseRank(root'.status.phase) >= PhaseRank(root.status.phase) ]_vars

\* A step of worker w persists the status with phase Initializing.
PersistsInitializing(w) ==
  /\ Len(inv'[w].trace) > Len(inv[w].trace)
  /\ inv'[w].trace[Len(inv'[w].trace)] = << "StatusUpdate", "root", "ok" >>
  /\ inv'[w].obj.status.phase = "Initializing"

\* C26: phase Initializing is persisted only by an invocation that read
\* an empty phase, and only while the stored phase is still empty; a
\* stored non-empty phase never becomes Initializing.
C26_InitializingOnce ==
  [][ /\ \A w \in DOMAIN inv :
           PersistsInitializing(w) =>
             /\ inv[w].obj.status.phase = ""
             /\ root.status.phase = ""
      /\ root'.status.phase = "Initializing" =>
           root.status.phase \in {"", "Initializing"} ]_vars

\* Two invocations read the empty phase; one persisted Initializing and
\* went on, the other's write of Initializing was rejected.
C26_Witness ==
  \E w \in DOMAIN inv :
    /\ inv[w].pc = "done"
    /\ inv[w].obj.status.phase = "Initializing"
    /\ inv[w].trace[Len(inv[w].trace)] = << "StatusUpdate", "root", "conflict" >>
    /\ root.status.phase = "PrerequisitesMissing"

\* C27: what validatePrerequisites reports is determined by the
\* registered types, the installed classes and the spec, whether the
\* credential secret exists or not; and while the secret is absent (the
\* model server never ready) phase Ready is not stored, and every
\* invocation that validated the prerequisites, upserted the model server
\* and found it not ready returns requeue-after 30s with phase Deploying
\* stored.
C27_AbsentSecret ==
  /\ \A w \in DOMAIN inv :
       inv[w].validated # "notrun" /\ ~inv[w].listFailed =>
         inv[w].missing = missingPrereqs(ProbeResults({}), classes, inv[w].obj.spec)
  /\ ~children[SecretKey].present =>
       /\ root.status.phase # "Ready"
       /\ \A w \in DOMAIN inv :
            /\ inv[w].pc = "done"
            /\ inv[w].validated = "ok"
            /\ \A i \in 1..Len(inv[w].trace) : ~IsFailedUpsertCall(inv[w].trace[i])
            /\ inv[w].readyMS = "false"
            => /\ inv[w].result = NotReadyResult
               /\ root.status.phase = "Deploying"

\* The step changes nothing of the root but scorer weights.
WeightOnlyChange ==
  /\ root' # root
  /\ "plugins" \in DOMAIN root.spec
  /\ root' = [root EXCEPT !.spec.plugins = root'.spec.plugins]
  /\ \A f \in ScorerFields :
       root'.spec.plugins[f] =
         [root.spec.plugins[f] EXCEPT !.weightNil = root'.spec.plugins[f].weightNil,
                                      !.weight = root'.spec.plugins[f].weight]

\* C28: across a change of scorer weights only, the descriptor of every
\* child other than the routing ConfigMap is the same before and after,
\* and its Update leaves the object stored by the earlier pass as it is.
C28_WeightOnlyChange ==
  [][ WeightOnlyChange =>
        \A c \in Children \ {"ConfigMap/epp-config"} :
          /\ Describe(c, root') = Describe(c, root)
          /\ LET old == Stored(TRUE, Absent, c, root)
             IN  Stored(FALSE, old, c, root') = old ]_vars

\* After a pass and a weight change the kept ConfigMap descriptor is no
\* longer the one the builders give, and every other kept descriptor is.
C28_Witness ==
  /\ \A c \in Children : children[c].present
  /\ "plugins" \in DOMAIN root.spec
  /\ children["ConfigMap/epp-config"].payload # Describe("ConfigMap/epp-config", root)
  /\ \A c \in Children \ {"ConfigMap/epp-config"} :
       children[c].payload = Describe(c, root)

\* The value used for an optional field: its default when left unset.
Defaulted(value, unset, default) == IF value = unset THEN default ELSE value

\* C29: the descriptors built from a root use, for every optional field
\* left unset, the field's default: model-server replicas 2, routing
\* replicas 1, model-server port 8000, routing gRPC port 9002, gateway
\* listener port 80, gateway class kgateway.
C29_DefaultsApplied ==
  LET ms == children["Deployment/vllm"]
      epp == children["Deployment/epp"]
      gw == children["Gateway/gateway"]
  IN  /\ ms.present /\ ms.payload = Describe("Deployment/vllm", root) =>
           /\ ms.payload.spec.replicas = Defaulted(root.spec.msReplicas, 0, 2)
           /\ ms.payload.spec.port = Defaulted(root.spec.msPort, 0, 8000)
      /\ epp.present /\ epp.payload = Describe("Deployment/epp", root) =>
           /\ epp.payload.spec.replicas = Defaulted(root.spec.eppReplicas, 0, 1)
           /\ epp.payload.spec.port = Defaulted(root.spec.grpcPort, 0, 9002)
      /\ gw.present /\ gw.payload = Describe("Gateway/gateway", root) =>
           /\ gw.payload.spec.gatewayClassName =
                Defaulted(root.spec.className, "", "kgateway")
           /\ gw.payload.spec.port = Defaulted(root.spec.listenerPort, 0, 80)

\* The store key of a descriptor: kind, namespace and name.
KeyOf(d) == << d.spec.kind, d.namespace, d.name >>

\* C30: no descriptor built for another root has the kind, namespace and
\* name of a descriptor built for this root.
C30_DisjointChildren ==
  \A c1, c2 \in Children :
    children[c1].present /\ children[c1].owner # << root.name, root.namespace >> =>
      KeyOf(children[c1].payload) # KeyOf(Describe(c2, root))

\* The descriptors of root a-epp are kept next to root a of the same
\* namespace.
C30_Witness ==
  /\ "name" \in DOMAIN root
  /\ root.name = "a"
  /\ \A c \in Children :
       children[c].present /\ children[c].owner = << "a-epp", root.namespace >>

\* Some invocation in flight has upserted child c successfully.
UpsertedByAny(c) == \E w \in DOMAIN inv : Upserted(inv[w].trace, c)

\* C31: with two invocations on the same root and the same DesiredState,
\* a Create succeeds only on a key under which nothing is stored; every
\* successful write stores the descriptor built from the DesiredState,
\* owned by the root, and changes no other child; every child either
\* invocation has upserted holds that descriptor; and a write whose
\* target was stored or changed after its read is rejected with
\* AlreadyExists or Conflict, the store as it was, the invocation ended
\* with an error.
C31_ConcurrentReconciles ==
  [][ /\ \A c \in Children :
           UpsertedByAny(c)' =>
             /\ children'[c].present
             /\ children'[c].payload = Build(c, root')
             /\ children'[c].owner = "root"
      /\ \A w \in DOMAIN inv : \A c \in Children :
           /\ UpsertSucceeds(w, c) =>
                /\ inv[w].obj.spec = root.spec
                /\ StepCall(inv[w], inv'[w])[1] = "Create" => ~children[c].present
                /\ children'[c].payload = Build(c, root)
                /\ children'[c].owner = "root"
                /\ \A d \in Children \ {c} : children'[d] = children[d]
           /\ ChangedSinceRead(w, c) /\ inv'[w] # inv[w] =>
                /\ children' = children
                /\ StepCall(inv[w], inv'[w])[2] = c
                /\ StepCall(inv[w], inv'[w])[3] \in {"exists", "conflict"}
                /\ inv'[w].pc = "done"
                /\ inv'[w].result.kind = "error" ]_vars

\* Both invocations have ended: one lost the Create of a child to the
\* other, and in an earlier round one lost an Update after a spec edit
\* (the stored workload is the one the winner built).
C31_Witness ==
  \E w, v \in DOMAIN inv : \E c \in Children :
    /\ w # v
    /\ inv[w].pc = "done" /\ inv[v].pc = "done"
    /\ \E i \in 1..Len(inv[w].trace) :
         inv[w].trace[i] \in { << "Create", c, "exists" >>, << "Update", c, "conflict" >> }
    /\ inv[w].result.kind = "error"
    /\ Upserted(inv[v].trace, c)
    /\ children[c].payload = Build(c, root)

\* What the stored root and children would become by one whole pass.
PassOutcome == WholePass(root, children)

\* Invocation r ended without a failure of a store call.
EndedClean(r) ==
  /\ r.pc = "done"
  /\ \A i \in 1..Len(r.trace) :
       r.trace[i][3] \notin {"err", "conflict", "exists", "nomatch"}

\* C32: no step of an invocation, whether the invocation goes on or is
\* cut short after it, changes what a whole pass over the store leaves
\* stored (children, their payloads, the status); and an invocation that
\* runs to its return leaves exactly that.  So a whole invocation after
\* one cut short at any store call leaves what an invocation never cut
\* short leaves.
C32_Restartability ==
  [][ /\ (\E w \in DOMAIN inv : inv'[w] # inv[w]) => PassOutcome' = PassOutcome
      /\ \A w \in DOMAIN inv :
           inv[w].pc # "done" /\ EndedClean(inv'[w]) =>
             /\ root'.status = PassOutcome.status
             /\ children' = PassOutcome.children ]_vars

\* An invocation was cut short after it created the children of the
\* router; the invocation after it ran to phase Ready.
C32_Witness ==
  /\ inv["w1"].pc = "aborted"
  /\ inv["w1"].trace[Len(inv["w1"].trace)] = << "Create", "Deployment/epp", "ok" >>
  /\ FullySatisfied(inv["w2"])
  /\ root.status.phase = "Ready"
  /\ root.status = PassOutcome.status
  /\ children = PassOutcome.children

\* The kinds Reconcile upserts without a readiness check of their own.
Unprobed ==
  {"ConfigMap/epp-config", "InferencePool/pool", "Gateway/gateway", "HTTPRoute/route"}

\* The condition that reports child c ready.
ReadyConditionOf(c) ==
  CASE c = "ConfigMap/epp-config" -> "EPPReady"
    [] c = "InferencePool/pool" -> "InferencePoolReady"
    [] c = "Gateway/gateway" -> "GatewayReady"
    [] c = "HTTPRoute/route" -> "GatewayReady"

\* C33, as the engine behaves: the only calls on the routing ConfigMap,
\* the pool, the Gateway and the route are those of their upserts, none
\* reads their state afterwards.  The successful upsert of the pool sets
\* InferencePoolReady True and the pool flag at once; GatewayReady True
\* and the gateway flag are set at once after the successful upsert of
\* the route, not after that of the Gateway; the upserts of the ConfigMap
\* and of the Gateway set no condition and no flag.
C33_NoReadinessProbe ==
  [][ \A w \in DOMAIN inv :
        /\ \A i \in 1..Len(inv'[w].trace) :
             inv'[w].trace[i][2] \in Unprobed => IsChildCall(inv'[w].trace[i])
        /\ UpsertSucceeds(w, "InferencePool/pool") =>
             /\ ConditionIs(inv'[w].obj.status, "InferencePoolReady", "True")
             /\ inv'[w].obj.status.inferencePoolReady
        /\ UpsertSucceeds(w, "HTTPRoute/route") =>
             /\ ConditionIs(inv'[w].obj.status, "GatewayReady", "True")
             /\ inv'[w].obj.status.gatewayReady
        /\ \A c \in {"ConfigMap/epp-config", "Gateway/gateway"} :
             UpsertSucceeds(w, c) => inv'[w].obj = inv[w].obj ]_vars

\* C33 as stated: after the successful upsert of each of the four kinds
\* a ready condition of that kind is True, and after those of the pool and
\* of the Gateway their flags are true.
C33_ReadyAfterEachUpsert ==
  [][ \A w \in DOMAIN inv : \A c \in Unprobed :
        UpsertSucceeds(w, c) =>
          /\ ConditionIs(inv'[w].obj.status, ReadyConditionOf(c), "True")
          /\ c = "InferencePool/pool" => inv'[w].obj.status.inferencePoolReady
          /\ c = "Gateway/gateway" => inv'[w].obj.status.gatewayReady ]_vars

\* The Gateway was created and the upsert of the route failed: the pool
\* is reported ready, the Gateway is stored and not reported ready.
C33_Witness ==
  \E w \in DOMAIN inv :
    /\ inv[w].pc = "done"
    /\ Upserted(inv[w].trace, "Gateway/gateway")
    /\ ~Upserted(inv[w].trace, "HTTPRoute/route")
    /\ children["Gateway/gateway"].present
    /\ ConditionIs(inv[w].obj.status, "InferencePoolReady", "True")
    /\ inv[w].obj.status.inferencePoolReady
    /\ ~ConditionIs(inv[w].obj.status, "GatewayReady", "True")
    /\ ~inv[w].obj.status.gatewayReady

\* The stored workload c has all its declared replicas ready.
StoredReady(c) ==
  /\ children[c].present
  /\ children[c].readyReplicas = children[c].payload.replicas

\* C34: with the prerequisites present and every store call succeeding,
\* an invocation that has returned left phase Ready stored when both
\* stored workloads had their ready-replica count equal to the declared
\* one, and phase Deploying when one had not; and the phases a client
\* reads between invocations, once a pass is over, are Deploying and
\* Ready, each reading differing from the one before.
C34_PhaseFollowsReadiness ==
  /\ \A w \in Active :
       inv[w].pc = "done" =>
         root.status.phase =
           (IF StoredReady(ModelServerDeployment) /\ StoredReady(EPPDeployment)
              THEN "Ready" ELSE "Deploying")
  /\ LET seen == inv[Observer].trace IN
     /\ \A i \in 1..Len(seen) : seen[i] \in {"", "Deploying", "Ready"}
     /\ \A i \in 2..Len(seen) : seen[i] # seen[i-1] /\ seen[i] # ""

\* The client has read Ready, then Deploying, then Ready again.
C34_Witness ==
  /\ inv[Observer].trace = << "Ready", "Deploying", "Ready" >>
  /\ root.status.phase = "Ready"

\* C35: in a cluster that settles (prerequisites present, store calls
\* failing finitely often, pods starting and staying up, no deletion,
\* Reconcile invoked again after every return), phase Ready is eventually
\* stored with all eleven children stored.
C35_EventualReadiness ==
  <>( /\ root.status.phase = "Ready"
      /\ Cardinality(StoredChildren) = 11
      /\ StoredChildren = Children )

\* Phase Ready is stored with the eleven children after store calls
\* have failed as often as they may.
C35_Witness ==
  /\ root.status.phase = "Ready"
  /\ StoredChildren = Children
  /\ \A c \in {ModelServerDeployment, EPPDeployment} :
       children[c].readyReplicas = children[c].payload.replicas
  /\ \E w \in DOMAIN inv : inv[w].faults = MaxFaults /\ inv[w].pc = "done"

\* The conditions that are True in a status with phase Ready.
ReadyConditions ==
  { "PrerequisitesValidated", "ModelServerReady", "EPPReady",
    "InferencePoolReady", "GatewayReady" }

\* C36: a stored status with phase Ready has the five conditions True
\* and the three flags true; and a step that stores a status with phase
\* Ready stores the replica counts of the spec that is stored at that
\* moment, which is the spec the invocation read.
C36_ReadyConsistency ==
  [][ /\ root'.exists /\ root'.status.phase = "Ready" =>
           /\ \A ty \in ReadyConditions : ConditionIs(root'.status, ty, "True")
           /\ \A ty \in ReadyConditions : ~ConditionIs(root'.status, ty, "False")
           /\ root'.status.prerequisitesValidated
           /\ root'.status.inferencePoolReady
           /\ root'.status.gatewayReady
      /\ root'.exists /\ root'.status.phase = "Ready" /\ root'.status # root.status =>
           /\ root'.status.modelServerReplicas = root'.spec.msReplicas
           /\ root'.status.eppReplicas = root'.spec.eppReplicas
           /\ \E w \in DOMAIN inv :
                /\ PersistsReady(w)
                /\ inv'[w].obj.spec = root'.spec ]_vars

\* A pass has just stored phase Ready, with five conditions, for a root
\* that asks for one model-server replica, which is stored and ready.
C36_Witness ==
  \E w \in DOMAIN inv :
    /\ inv[w].pc = "done"
    /\ inv[w].result = [kind |-> "requeueAfter", after |-> RequeueReady]
    /\ root.exists /\ root.status.phase = "Ready"
    /\ root.status.modelServerReplicas = 1
    /\ root.spec.msReplicas = 1
    /\ children[ModelServerDeployment].payload.replicas = 1
    /\ children[ModelServerDeployment].readyReplicas = 1
    /\ Len(root.status.conditions) = 5

\* The prerequisites flag of status st and its condition agree.
FlagAgrees(st) ==
  st.prerequisitesValidated <=> ConditionIs(st, "PrerequisitesValidated", "True")

\* C37: in the stored status, and in the copy every invocation works on,
\* the prerequisites flag is true exactly when a PrerequisitesValidated
\* condition with status True is in the list; and validatePrerequisites
\* succeeding for a copy whose flag is already true leaves the list as
\* it is.
C37_FlagAndCondition ==
  [][ /\ root'.exists => FlagAgrees(root'.status)
      /\ \A w \in DOMAIN inv :
           /\ FlagAgrees(inv'[w].obj.status)
           /\ ( /\ inv[w].pc = "validate"
                /\ inv[w].obj.status.prerequisitesValidated
                /\ inv'[w].validated = "ok" ) =>
                inv'[w].obj.status.conditions = inv[w].obj.status.conditions ]_vars

\* The flag was stored true by a pass that created the model server and
\* false by a later pass: the condition followed it.
C37_Witness ==
  /\ root.exists
  /\ root.status.phase = "PrerequisitesMissing"
  /\ ~root.status.prerequisitesValidated
  /\ ConditionIs(root.status, "PrerequisitesValidated", "False")
  /\ ~ConditionIs(root.status, "PrerequisitesValidated", "True")
  /\ children[ModelServerDeployment].present

C39_Adoption ==
  [][ \A w \in DOMAIN inv : \A c \in Children :
        /\ inv[w].pc = "upsertWrite"
        /\ Order[inv[w].step] = c
        /\ children[c].present
        /\ children[c].owner # "root"
        /\ inv'[w] # inv[w]
        => /\ inv[w].trace[Len(inv[w].trace)] = << "Get", c, "ok" >>
           /\ StepCall(inv[w], inv'[w]) = << "Update", c, "ok" >>
           /\ children'[c].present
           /\ children'[c].payload = Build(c, inv[w].obj)
           /\ children'[c].owner = "root"
           /\ children'[c].creator = children[c].creator
           /\ inv'[w].result.kind # "error" ]_vars

\* A pass has ended with phase Ready; one of its children is an object
\* another actor had created, now owned by the root with the
\* descriptor's payload.
C39_Witness ==
  \E w \in DOMAIN inv : \E c \in Children :
    /\ inv[w].pc = "done"
    /\ inv[w].result = [kind |-> "requeueAfter", after |-> RequeueReady]
    /\ root.status.phase = "Ready"
    /\ children[c].creator = "other"
    /\ children[c].owner = "root"
    /\ children[c].payload = Build(c, root)
    /\ \A d \in Children \ {c} : children[d].creator = "engine"

\* C40: a step of an invocation leaves the stored spec and the stored
\* deletion marker as they are, also when the user edited the root after
\* the invocation read it; of the finalizers it adds or removes only its
\* own; the root leaves the store by such a step only when the deletion
\* marker was set and the engine's finalizer was the last; and the copy
\* the invocation works on keeps the spec and the marker it read.
C40_DesiredStateUntouched ==
  [][ \A w \in DOMAIN inv :
        inv'[w] # inv[w] =>
          /\ root'.spec = root.spec
          /\ root'.deletionTimestamp = root.deletionTimestamp
          /\ root'.exists =>
               root'.finalizers \ {finalizerName} = root.finalizers \ {finalizerName}
          /\ root.exists /\ ~root'.exists =>
               root.deletionTimestamp /\ root.finalizers = {finalizerName}
          /\ inv[w].pc \notin {"idle", "done"} =>
               /\ inv'[w].obj.spec = inv[w].obj.spec
               /\ inv'[w].obj.deletionTimestamp = inv[w].obj.deletionTimestamp ]_vars

\* The user edited the spec after an invocation had read the root; the
\* invocation's Update of the root was rejected and the edit is stored.
C40_Witness ==
  \E w \in DOMAIN inv :
    /\ inv[w].pc = "done"
    /\ inv[w].trace[Len(inv[w].trace)] = << "Update", "root", "conflict" >>
    /\ finalizerName \in inv[w].obj.finalizers
    /\ root.exists
    /\ root.spec # inv[w].obj.spec
    /\ finalizerName \notin root.finalizers

====
